---------------------------- MODULE Spec2Model ----------------------------
(***************************************************************************)
(* Model of the cost-ingestion Lambda (src/lambda/cost_ingestion):         *)
(*   handler.py            lambda_handler, calculate_potential_savings,    *)
(*                         generate_recommendations, send_cloudwatch_metrics*)
(*   utils/cost_explorer.py  CostExplorerClient                            *)
(*   utils/resource_scanner.py ResourceScanner                             *)
(*   utils/s3_writer.py    S3Writer                                        *)
(*                                                                         *)
(* Money.  Python floats are modelled as exact decimals counted in mills   *)
(* (1/1000 USD): 30.0 is 30000, 0.08 is 80, 3.65 is 3650.  round(x, 2)     *)
(* yields a multiple of 10 mills.  A value that lies exactly half way      *)
(* between two cents in decimal is, as a binary float, a hair above or     *)
(* below the half (0.045 is stored below it, 15.115 is stored above it),   *)
(* and which it is depends on the accumulated representation error that    *)
(* the model does not track: Round2 therefore gives the SET of values the  *)
(* rounding can produce, a single value off a tie and both neighbours on   *)
(* one.                                                                    *)
(***************************************************************************)
EXTENDS Integers, Sequences, FiniteSets, TLC

VARIABLES
    \* lambda_handler: its position, its locals, what it returns
    pc,               \* the call lambda_handler makes next, "done" once it returned
    today,            \* datetime.now().date(), the report date (end_date)
    cost_data,        \* result of get_cost_and_usage
    service_costs,    \* result of get_cost_by_service; its 'services' dict is a
                      \* sequence of [service, cost] in dict (insertion) order
    idle_resources,   \* inventory: category name -> sequence of resource records
    cost_trends,      \* result of get_cost_trends
    potential_savings, \* [value |-> calculate_potential_savings(idle_resources)]
    recommendations,  \* [value |-> generate_recommendations(...)]
    report,           \* the assembled report
    response,         \* what lambda_handler returned
    \* the collaborators
    s3,               \* the bucket: object key -> stored body
    cloudwatch,       \* the metrics pushed so far, in order
    cost_response,    \* what the billing API answered to get_cost_and_usage
    service_response, \* what it answered to get_cost_by_service
    scan_outcomes,    \* what the provider answered to each scan_* call
    prev_request,     \* the TimePeriod of the previous-period query
    prev_response,    \* what the billing API answered to the previous-period query
    \* a function called on its own (every specification but Spec)
    current_cost,     \* get_cost_trends' current_cost argument (mills)
    ret,              \* <<>> before the call under study returns, <<value>> after
    call              \* which function was called on its own, with its scalar arguments

handlerVars == <<pc, today, cost_data, cost_trends, potential_savings, recommendations,
                 report, response, s3, cloudwatch, cost_response, service_response,
                 scan_outcomes>>

vars == <<pc, today, cost_data, service_costs, idle_resources, cost_trends,
          potential_savings, recommendations, report, response, s3, cloudwatch, cost_response, service_response, scan_outcomes,
          prev_request, prev_response, current_cost, ret, call>>

---------------------------------------------------------------------------
(* Bounds of the model *)

\* most idle resources an inventory holds, all categories together
MaxItems == 3

---------------------------------------------------------------------------
(* Python helpers *)

\* dict.get(key, default)
Get(d, k, default) == IF k \in DOMAIN d THEN d[k] ELSE default

\* mutant: the number is written without padding
Pad2_unpadded(n) == ToString(n)

\* {n:02d}
Pad2(n) == IF n < 10 THEN "0" \o ToString(n) ELSE ToString(n)

\* date.isoformat()
isoformat(date) == ToString(date.year) \o "-" \o Pad2(date.month) \o "-" \o Pad2(date.day)

\* datetime.isoformat() of a datetime at midnight
datetime_isoformat(date) == isoformat(date) \o "T00:00:00"

\* the calendar of datetime: dates are [year, month, day], counted in days
\* from the first of the years the model covers
Years == 2023..2026

is_leap(year) == year % 4 = 0 /\ (year % 100 # 0 \/ year % 400 = 0)

days_in_month(year, month) ==
    CASE month \in {4, 6, 9, 11} -> 30
      [] month = 2 -> IF is_leap(year) THEN 29 ELSE 28
      [] OTHER -> 31

RECURSIVE days_before_month(_, _)
days_before_month(year, month) ==
    IF month = 1 THEN 0
    ELSE days_before_month(year, month - 1) + days_in_month(year, month - 1)

RECURSIVE days_before_year(_)
days_before_year(year) ==
    IF year - 1 \notin Years THEN 0
    ELSE days_before_year(year - 1) + (IF is_leap(year - 1) THEN 366 ELSE 365)

\* date.toordinal(), up to the choice of day 1
toordinal(date) ==
    days_before_year(date.year) + days_before_month(date.year, date.month) + date.day

\* date.fromordinal(n)
fromordinal(n) ==
    LET year  == CHOOSE y \in Years :
                     days_before_year(y) < n /\ n <= days_before_year(y + 1)
        rest  == n - days_before_year(year)
        month == CHOOSE m \in 1..12 :
                     /\ days_before_month(year, m) < rest
                     /\ rest <= days_before_month(year, m) + days_in_month(year, m)
    IN  [year |-> year, month |-> month, day |-> rest - days_before_month(year, month)]

\* date - timedelta(days=n)
minus_days(date, n) == fromordinal(toordinal(date) - n)

\* mutant: round(x) in place of round(x, 2): to whole dollars
Round0(x) ==
    LET lo == (x \div 1000) * 1000
        r  == x % 1000
    IN  IF r < 500 THEN {lo}
        ELSE IF r > 500 THEN {lo + 1000}
        ELSE {lo, lo + 1000}

\* round(x, 2) of x mills: the possible results, in mills (see header)
Round2(x) ==
    LET lo == (x \div 10) * 10
        r  == x % 10
    IN  IF r < 5 THEN {lo}
        ELSE IF r > 5 THEN {lo + 10}
        ELSE {lo, lo + 10}

---------------------------------------------------------------------------
(* handler.py: calculate_potential_savings *)

Categories ==
    {"ec2_stopped", "ebs_unattached", "eip_unassociated", "rds_stopped", "elb_unused"}

ec2_pricing ==
    ("t3.micro" :> 10000) @@ ("t3.small" :> 15000) @@ ("t3.medium" :> 30000) @@
    ("t3.large" :> 60000) @@ ("t3.xlarge" :> 120000)

ebs_pricing ==
    ("gp3" :> 80) @@ ("gp2" :> 100) @@ ("io1" :> 125) @@ ("st1" :> 45)

rds_instance_pricing ==
    ("db.t3.micro" :> 15000) @@ ("db.t3.small" :> 30000) @@
    ("db.t3.medium" :> 60000) @@ ("db.t3.large" :> 120000)

\* mutant: an instance type that is not in the table is priced at nothing
ec2_item_savings_no_fallback(instance) ==
    Get(ec2_pricing, Get(instance, "type", "t3.medium"), 0)

\* body of the loop over ec2_stopped: what one instance adds
ec2_item_savings(instance) ==
    LET instance_type == Get(instance, "type", "t3.medium")
    IN  Get(ec2_pricing, instance_type, 30000)

\* body of the loop over ebs_unattached
ebs_item_savings(volume) ==
    LET size_gb      == Get(volume, "size", 100)
        volume_type  == Get(volume, "type", "gp3")
        price_per_gb == Get(ebs_pricing, volume_type, 80)
    IN  size_gb * price_per_gb

\* mutant: the storage cost of a stopped database is left out
rds_item_savings_no_storage(db) ==
    Get(rds_instance_pricing, Get(db, "instance_class", "db.t3.medium"), 60000)

\* body of the loop over rds_stopped
rds_item_savings(db) ==
    LET instance_class == Get(db, "instance_class", "db.t3.medium")
        storage_gb     == Get(db, "storage", 100)
        instance_cost  == Get(rds_instance_pricing, instance_class, 60000)
        storage_cost   == storage_gb * 115
    IN  instance_cost + storage_cost

RECURSIVE ec2_loop(_, _)
ec2_loop(total_savings, instances) ==
    IF instances = <<>> THEN total_savings
    ELSE ec2_loop(total_savings + ec2_item_savings(Head(instances)), Tail(instances))

RECURSIVE ebs_loop(_, _)
ebs_loop(total_savings, volumes) ==
    IF volumes = <<>> THEN total_savings
    ELSE ebs_loop(total_savings + ebs_item_savings(Head(volumes)), Tail(volumes))

RECURSIVE rds_loop(_, _)
rds_loop(total_savings, dbs) ==
    IF dbs = <<>> THEN total_savings
    ELSE rds_loop(total_savings + rds_item_savings(Head(dbs)), Tail(dbs))

\* total_savings just before the final round(total_savings, 2)
total_savings_of(idle) ==
    LET t1 == ec2_loop(0, Get(idle, "ec2_stopped", <<>>))
        t2 == ebs_loop(t1, Get(idle, "ebs_unattached", <<>>))
        t3 == t2 + Len(Get(idle, "eip_unassociated", <<>>)) * 3650
        t4 == rds_loop(t3, Get(idle, "rds_stopped", <<>>))
        t5 == t4 + Len(Get(idle, "elb_unused", <<>>)) * 18000
    IN  t5

\* the values calculate_potential_savings(idle) can return
calculate_potential_savings(idle) == Round2(total_savings_of(idle))

---------------------------------------------------------------------------
(* Inputs of the estimator: the records the scanner produces, and records  *)
(* that lack the attribute the estimator reads (its .get defaults).        *)

EC2Items ==
    {[type |-> t] : t \in {"t3.micro", "t3.small", "t3.medium", "t3.large",
                           "t3.xlarge", "m5.large"}} \cup {[id |-> "i-1"]}

EBSItems ==
    {[size |-> s, type |-> t] : s \in {1, 100}, t \in {"gp3", "gp2", "io1", "st1", "sc1"}}
    \cup {[size |-> 3], [type |-> "gp2"]}

EIPItems == {[allocation_id |-> "eipalloc-1"]}

RDSItems ==
    {[instance_class |-> c, storage |-> s] :
        c \in {"db.t3.micro", "db.t3.small", "db.t3.medium", "db.t3.large", "db.m5.large"},
        s \in {1, 20}}
    \cup {[storage |-> 20], [instance_class |-> "db.t3.micro"]}

ELBItems == {[arn |-> "arn-1"]}

ItemsOf(cat) ==
    CASE cat = "ec2_stopped"      -> EC2Items
      [] cat = "ebs_unattached"   -> EBSItems
      [] cat = "eip_unassociated" -> EIPItems
      [] cat = "rds_stopped"      -> RDSItems
      [] cat = "elb_unused"       -> ELBItems

EmptyInventory == [c \in Categories |-> <<>>]

RECURSIVE SumLen(_, _)
SumLen(idle, cats) ==
    IF cats = {} THEN 0
    ELSE LET c == CHOOSE c \in cats : TRUE
         IN  Len(idle[c]) + SumLen(idle, cats \ {c})

\* mutant: the categories holding something are counted, not the resources
idle_resources_count_categories(idle) == Cardinality({c \in DOMAIN idle : idle[c] # <<>>})

\* sum(len(v) for v in idle_resources.values())
idle_resources_count(idle) == SumLen(idle, DOMAIN idle)

NoServices == [services |-> <<>>]
NoResponse == [outcome |-> "none"]

\* a local that has not been assigned yet
Unset == [unset |-> TRUE]

\* a temporary that holds the value v
Assigned(v) == [value |-> v]

\* no function has been called on its own
NoCall == [name |-> "none"]

\* lambda_handler is not running: the function under study is called directly
HandlerIdle ==
    /\ pc = "idle"
    /\ today = Unset
    /\ cost_data = Unset
    /\ cost_trends = Unset
    /\ potential_savings = Unset
    /\ recommendations = Unset
    /\ report = Unset
    /\ response = Unset
    /\ s3 = <<>>
    /\ cloudwatch = <<>>
    /\ cost_response = NoResponse
    /\ service_response = NoResponse
    /\ scan_outcomes = Unset

---------------------------------------------------------------------------
(* Specification SpecSavings: calculate_potential_savings on every         *)
(* inventory of at most MaxItems resources, with or without its empty      *)
(* categories.                                                             *)

InitPure ==
    /\ HandlerIdle
    /\ idle_resources = EmptyInventory
    /\ service_costs = NoServices
    /\ current_cost = 0
    /\ prev_request = Unset
    /\ prev_response = NoResponse
    /\ ret = <<>>
    /\ call = NoCall

\* the inventory gains a resource (the argument of the next call)
AddIdleResource ==
    /\ idle_resources_count(idle_resources) < MaxItems
    /\ \E cat \in DOMAIN idle_resources :
         \E item \in ItemsOf(cat) :
            idle_resources' = [idle_resources EXCEPT ![cat] = Append(@, item)]
    /\ ret' = <<>>
    /\ UNCHANGED <<service_costs, current_cost, prev_request, prev_response, handlerVars, call>>

\* the inventory comes without one of its empty categories
OmitCategory ==
    /\ ret = <<>>
    /\ \E cat \in DOMAIN idle_resources :
         /\ idle_resources[cat] = <<>>
         /\ idle_resources' = [c \in DOMAIN idle_resources \ {cat} |-> idle_resources[c]]
    /\ UNCHANGED <<ret, service_costs, current_cost, prev_request, prev_response, handlerVars, call>>

CallCalculatePotentialSavings ==
    /\ ret = <<>>
    /\ \E r \in calculate_potential_savings(idle_resources) : ret' = <<r>>
    /\ UNCHANGED <<idle_resources, service_costs, current_cost, prev_request, prev_response, handlerVars, call>>

NextSavings == AddIdleResource \/ OmitCategory \/ CallCalculatePotentialSavings

SpecSavings == InitPure /\ [][NextSavings]_vars

---------------------------------------------------------------------------
(* handler.py: generate_recommendations *)

\* the cost above which a service is flagged: "if cost > 100"
COST_REVIEW_THRESHOLD == 100000

\* how many services the slice [:3] keeps
TOP_SERVICES == 3

Min(a, b) == IF a < b THEN a ELSE b

\* list[:n]
Take(s, n) == SubSeq(s, 1, Min(n, Len(s)))

\* mutant: an item is put in front of the items of equal key (ties reversed)
RECURSIVE insert_desc_before_ties(_, _)
insert_desc_before_ties(s, e) ==
    IF s = <<>> THEN <<e>>
    ELSE IF Head(s).cost > e.cost THEN <<Head(s)>> \o insert_desc_before_ties(Tail(s), e)
    ELSE <<e>> \o s

\* where sorted(..., reverse=True) puts e among the already sorted items s:
\* behind every item whose key is >= e's (the sort is stable)
RECURSIVE insert_desc(_, _)
insert_desc(s, e) ==
    IF s = <<>> THEN <<e>>
    ELSE IF Head(s).cost >= e.cost THEN <<Head(s)>> \o insert_desc(Tail(s), e)
    ELSE <<e>> \o s

\* mutant: the sort without reverse=True (ascending cost)
RECURSIVE insert_asc(_, _)
insert_asc(s, e) ==
    IF s = <<>> THEN <<e>>
    ELSE IF Head(s).cost <= e.cost THEN <<Head(s)>> \o insert_asc(Tail(s), e)
    ELSE <<e>> \o s

RECURSIVE sorted_asc(_)
sorted_asc(items) ==
    IF items = <<>> THEN <<>>
    ELSE insert_asc(sorted_asc(SubSeq(items, 1, Len(items) - 1)), items[Len(items)])

\* sorted(items, key=lambda x: x[1], reverse=True)
RECURSIVE sorted_by_cost_desc(_)
sorted_by_cost_desc(items) ==
    IF items = <<>> THEN <<>>
    ELSE insert_desc(sorted_by_cost_desc(SubSeq(items, 1, Len(items) - 1)),
                     items[Len(items)])

ec2_recommendation(n) ==
    [priority |-> "HIGH", category |-> "Idle Resources",
     title  |-> [verb |-> "Terminate", count |-> n, what |-> "stopped EC2 instances"],
     impact |-> [per_month |-> n * 30000],
     action |-> "Review and terminate unused instances or convert to reserved instances"]

ebs_recommendation(n) ==
    [priority |-> "MEDIUM", category |-> "Storage Optimization",
     title  |-> [verb |-> "Delete", count |-> n, what |-> "unattached EBS volumes"],
     impact |-> [per_month |-> n * 10000],
     action |-> "Create snapshots if needed, then delete volumes"]

eip_recommendation(n) ==
    [priority |-> "LOW", category |-> "Network Optimization",
     title  |-> [verb |-> "Release", count |-> n, what |-> "unassociated Elastic IPs"],
     impact |-> [per_month |-> n * 3650],
     action |-> "Release unused Elastic IPs immediately"]

\* The costs that reach the generator are whole cents (get_cost_by_service
\* rounds them), for which the title's {cost:.2f} prints the cost itself.
cost_review_recommendation(service, cost) ==
    [priority |-> "MEDIUM", category |-> "Cost Review",
     title  |-> [verb |-> "Review", service |-> service, cost |-> cost],
     impact |-> [text |-> "Variable"],
     action |-> [analyze |-> service]]

\* mutant: the threshold test written >= instead of >
flagged_at_or_above(cost) == cost >= COST_REVIEW_THRESHOLD

\* "if cost > 100"
flagged(cost) == cost > COST_REVIEW_THRESHOLD

\* mutant: the RDS category gets a recommendation of its own
ebs_rule_on_rds(idle) ==
    LET n == Len(Get(idle, "ebs_unattached", <<>>)) + Len(Get(idle, "rds_stopped", <<>>))
    IN  IF n > 0 THEN <<ebs_recommendation(n)>> ELSE <<>>

\* "if idle_resources.get('ebs_unattached'): recommendations.append(...)"
ebs_rule(idle) ==
    LET volumes == Get(idle, "ebs_unattached", <<>>)
    IN  IF volumes # <<>> THEN <<ebs_recommendation(Len(volumes))>> ELSE <<>>

\* the loop over top_services
RECURSIVE cost_review_loop(_)
cost_review_loop(top_services) ==
    IF top_services = <<>> THEN <<>>
    ELSE LET s == Head(top_services)
         IN  (IF flagged(s.cost)
              THEN <<cost_review_recommendation(s.service, s.cost)>>
              ELSE <<>>) \o cost_review_loop(Tail(top_services))

\* sorted(service_costs.get('services', {}).items(), ...)[:3]
top_services_of(svc) ==
    Take(sorted_by_cost_desc(Get(svc, "services", <<>>)), TOP_SERVICES)

generate_recommendations(idle, svc) ==
    LET ec2 == Get(idle, "ec2_stopped", <<>>)
        eip == Get(idle, "eip_unassociated", <<>>)
        r1  == IF ec2 # <<>> THEN <<ec2_recommendation(Len(ec2))>> ELSE <<>>
        r2  == r1 \o ebs_rule(idle)
        r3  == r2 \o (IF eip # <<>> THEN <<eip_recommendation(Len(eip))>> ELSE <<>>)
    IN  r3 \o cost_review_loop(top_services_of(svc))

---------------------------------------------------------------------------
(* Specification SpecRecommendations: generate_recommendations on every    *)
(* inventory of at most MaxItems resources and every cost map of at most   *)
(* MaxServices services.                                                   *)

\* most services a cost map holds
MaxServices == 4

\* the services, in the order the cost map lists them (dict order)
ServiceNames == <<"EC2", "RDS", "S3", "Lambda", "DynamoDB", "CloudWatch">>

\* monthly costs, in mills: 20.00, 80.00, 100.00, 100.01, 150.00
ServiceCostValues == {20000, 80000, 100000, 100010, 150000}

SeqsUpTo(S, n) == UNION {[1..k -> S] : k \in 0..n}

ServiceMaps ==
    {[services |-> [i \in 1..Len(costs) |-> [service |-> ServiceNames[i], cost |-> costs[i]]]] :
        costs \in SeqsUpTo(ServiceCostValues, Min(MaxServices, Len(ServiceNames)))}

\* one record of each category: the generator reads only the lengths
SampleItem(cat) == CHOOSE item \in ItemsOf(cat) : TRUE

CountInventories ==
    {[c \in Categories |-> [i \in 1..n[c] |-> SampleItem(c)]] :
        n \in {m \in [Categories -> 0..MaxItems] : SumLen([c \in Categories |-> [i \in 1..m[c] |-> 0]], Categories) <= MaxItems}}

CallGenerateRecommendations ==
    /\ ret = <<>>
    /\ \E idle \in CountInventories, svc \in ServiceMaps :
         /\ idle_resources' = idle
         /\ service_costs' = svc
         /\ ret' = <<generate_recommendations(idle, svc)>>
    /\ call' = [name |-> "generate_recommendations"]
    /\ UNCHANGED <<current_cost, prev_request, prev_response, handlerVars>>

NextRecommendations == CallGenerateRecommendations

SpecRecommendations == InitPure /\ [][NextRecommendations]_vars

---------------------------------------------------------------------------
(* Claims about calculate_potential_savings (SpecSavings) *)

RECURSIVE SumSeq(_)
SumSeq(s) == IF s = <<>> THEN 0 ELSE Head(s) + SumSeq(Tail(s))

Abs(x) == IF x < 0 THEN -x ELSE x

\* v is x rounded to 2 decimal places: a whole number of cents nearest to x
IsRoundedTo2(v, x) == v % 10 = 0 /\ Abs(v - x) <= 5

\* the price table as the specification gives it (mills)
TableEC2Price(t) ==
    CASE t = "t3.micro" -> 10000 [] t = "t3.small" -> 15000 [] t = "t3.medium" -> 30000
      [] t = "t3.large" -> 60000 [] t = "t3.xlarge" -> 120000 [] OTHER -> 30000

TableEBSPricePerGB(t) ==
    CASE t = "gp3" -> 80 [] t = "gp2" -> 100 [] t = "io1" -> 125 [] t = "st1" -> 45
      [] OTHER -> 80

TableRDSPrice(c) ==
    CASE c = "db.t3.micro" -> 15000 [] c = "db.t3.small" -> 30000
      [] c = "db.t3.medium" -> 60000 [] c = "db.t3.large" -> 120000 [] OTHER -> 60000

\* every record carries the attributes the estimator prices it by
Attributed(idle) ==
    /\ DOMAIN idle = Categories
    /\ \A i \in 1..Len(idle["ec2_stopped"]) : "type" \in DOMAIN idle["ec2_stopped"][i]
    /\ \A i \in 1..Len(idle["ebs_unattached"]) :
          {"size", "type"} \subseteq DOMAIN idle["ebs_unattached"][i]
    /\ \A i \in 1..Len(idle["rds_stopped"]) :
          {"instance_class", "storage"} \subseteq DOMAIN idle["rds_stopped"][i]

\* the per-category sum of unit price x quantity
TableSum(idle) ==
    LET ec2 == idle["ec2_stopped"]
        ebs == idle["ebs_unattached"]
        rds == idle["rds_stopped"]
    IN  SumSeq([i \in 1..Len(ec2) |-> TableEC2Price(ec2[i].type)])
        + SumSeq([i \in 1..Len(ebs) |-> ebs[i].size * TableEBSPricePerGB(ebs[i].type)])
        + 3650 * Len(idle["eip_unassociated"])
        + SumSeq([i \in 1..Len(rds) |->
                    TableRDSPrice(rds[i].instance_class) + rds[i].storage * 115])
        + 18000 * Len(idle["elb_unused"])

ExampleInventory ==
    [EmptyInventory EXCEPT !["ec2_stopped"] = <<[type |-> "t3.medium"]>>,
                           !["ebs_unattached"] = <<[size |-> 100, type |-> "gp3"]>>,
                           !["eip_unassociated"] = <<[allocation_id |-> "eipalloc-1"]>>]

\* C1: for every inventory whose records carry their attributes,
\* calculate_potential_savings returns the per-category sum of unit price x
\* quantity (EC2 price by type, size x per-GB price, 3.65 per EIP, class price
\* + storage x 0.115, 18.0 per load balancer) rounded to 2 decimal places; one
\* t3.medium, one 100 GB gp3 volume and one EIP give 41.65.
C1_SavingsIsRoundedTableSum ==
    ret # <<>> =>
        /\ Attributed(idle_resources) => IsRoundedTo2(ret[1], TableSum(idle_resources))
        /\ idle_resources = ExampleInventory => ret[1] = 41650

\* C1 witness: the example inventory has been priced at 41.65
C1_Witness == idle_resources = ExampleInventory /\ ret = <<41650>>

\* C2: the estimate is never negative, and it is 0 exactly when all five
\* categories are empty (sizes and storage amounts are positive integers in
\* every inventory of the specification).
C2_SavingsZeroIffEmpty ==
    ret # <<>> =>
        /\ ret[1] >= 0
        /\ ret[1] = 0 <=> idle_resources_count(idle_resources) = 0

\* C2 witness: the cheapest single resource, a 1 GB st1 volume (0.045), has
\* been priced above 0
C2_Witness ==
    /\ idle_resources = [EmptyInventory EXCEPT
                            !["ebs_unattached"] = <<[size |-> 1, type |-> "st1"]>>]
    /\ ret # <<>>
    /\ ret[1] > 0

---------------------------------------------------------------------------
(* Claims about generate_recommendations (SpecRecommendations) *)

\* the positions of the entries of recs whose category is cat
EntriesOf(recs, cat) == {i \in 1..Len(recs) : recs[i].category = cat}

CostReviews(recs) == EntriesOf(recs, "Cost Review")

NonEmptyCategories(idle, cats) == {c \in cats : idle[c] # <<>>}

\* the recommendation category each inventory rule emits
RuleCategory ==
    ("ec2_stopped" :> "Idle Resources") @@ ("ebs_unattached" :> "Storage Optimization") @@
    ("eip_unassociated" :> "Network Optimization")

\* C3 as stated: one recommendation per non-empty category of the five, at
\* most 3 Cost Review entries, and nothing else.
C3_OnePerNonEmptyFixedCategory ==
    ret # <<>> =>
        /\ Cardinality(CostReviews(ret[1])) <= 3
        /\ Len(ret[1]) = Cardinality(NonEmptyCategories(idle_resources, Categories))
                         + Cardinality(CostReviews(ret[1]))

\* C3 amended: exactly one recommendation for each non-empty category among
\* ec2_stopped, ebs_unattached and eip_unassociated, none for an empty one,
\* none at all for rds_stopped and elb_unused, and at most 3 Cost Review
\* entries; the output length is the number of non-empty categories among
\* those three plus the number of Cost Review entries.
C3_OnePerNonEmptyRuleCategory ==
    ret # <<>> =>
        /\ \A c \in DOMAIN RuleCategory :
              Cardinality(EntriesOf(ret[1], RuleCategory[c]))
                 = IF idle_resources[c] # <<>> THEN 1 ELSE 0
        /\ Cardinality(CostReviews(ret[1])) <= 3
        /\ Len(ret[1]) = Cardinality(NonEmptyCategories(idle_resources, DOMAIN RuleCategory))
                         + Cardinality(CostReviews(ret[1]))

\* C3 witness: a stopped database and an unused load balancer beside a
\* stopped instance: one recommendation comes out, for the instance
C3_Witness ==
    /\ ret # <<>>
    /\ idle_resources["rds_stopped"] # <<>>
    /\ idle_resources["elb_unused"] # <<>>
    /\ idle_resources["ec2_stopped"] # <<>>
    /\ service_costs.services = <<>>
    /\ Len(ret[1]) = 1
    /\ ret[1][1].category = "Idle Resources"

Services == service_costs.services

\* the number of Cost Review entries naming the service
ReviewsOf(recs, name) ==
    Cardinality({i \in CostReviews(recs) : recs[i].title.service = name})

ExampleServices ==
    [services |-> <<[service |-> "EC2", cost |-> 150000], [service |-> "RDS", cost |-> 80000],
                    [service |-> "S3", cost |-> 20000]>>]

\* C4: a service is flagged (one Cost Review entry) only if it costs more than
\* 100 and fewer than 3 services cost strictly more; no service is flagged
\* twice; and the number flagged is min(3, number of services costing more
\* than 100), so that the 3 most expensive above 100 are all flagged.  A
\* service at exactly 100 is skipped and so is one ranking 4th or lower.  With
\* {EC2: 150, RDS: 80, S3: 20} and no idle resources the output is one Cost
\* Review entry, for EC2.
C4_CostReviewTop3Above100 ==
    ret # <<>> =>
        /\ \A i \in 1..Len(Services) :
              LET s == Services[i]
                  dearer == {j \in 1..Len(Services) : Services[j].cost > s.cost}
              IN  /\ ReviewsOf(ret[1], s.service) <= 1
                  /\ ReviewsOf(ret[1], s.service) = 1 =>
                        s.cost > 100000 /\ Cardinality(dearer) < 3
        /\ \A i \in CostReviews(ret[1]) :
              \E j \in 1..Len(Services) : /\ Services[j].service = ret[1][i].title.service
                                          /\ Services[j].cost = ret[1][i].title.cost
        /\ Cardinality(CostReviews(ret[1]))
              = Min(3, Cardinality({j \in 1..Len(Services) : Services[j].cost > 100000}))
        /\ (service_costs = ExampleServices /\ idle_resources = EmptyInventory) =>
              /\ Len(ret[1]) = 1
              /\ ret[1][1].category = "Cost Review"
              /\ ret[1][1].title.service = "EC2"

\* C4 witness: four services above 100, one at exactly 100 among them ranked
\* out, three flagged
C4_Witness ==
    /\ ret # <<>>
    /\ Len(Services) = 4
    /\ \A j \in 1..4 : Services[j].cost >= 100000
    /\ \E j \in 1..4 : Services[j].cost = 100000
    /\ Cardinality(CostReviews(ret[1])) = 3
    /\ \E j \in 1..4 : Services[j].cost > 100000 /\ ReviewsOf(ret[1], Services[j].service) = 1

\* C4 witness of the example: {EC2: 150, RDS: 80, S3: 20}, no idle resources
C4_ExampleReached ==
    /\ service_costs = ExampleServices
    /\ idle_resources = EmptyInventory
    /\ ret # <<>>
    /\ Len(ret[1]) = 1

\* the place of an entry's rule in the generator's fixed order
RuleIndex(rec) ==
    CASE rec.category = "Idle Resources"       -> 1
      [] rec.category = "Storage Optimization" -> 2
      [] rec.category = "Network Optimization" -> 3
      [] rec.category = "Cost Review"          -> 4

RulePriority == <<"HIGH", "MEDIUM", "LOW", "MEDIUM">>

\* C5: the entries come in the fixed order HIGH Idle Resources, MEDIUM Storage
\* Optimization, LOW Network Optimization, then the MEDIUM Cost Review entries
\* in non-increasing cost order: no entry precedes an entry of an earlier rule.
C5_FixedOrder ==
    ret # <<>> =>
        /\ \A i \in 1..Len(ret[1]) :
              /\ ret[1][i].category \in {"Idle Resources", "Storage Optimization",
                                         "Network Optimization", "Cost Review"}
              /\ ret[1][i].priority = RulePriority[RuleIndex(ret[1][i])]
        /\ \A i, j \in 1..Len(ret[1]) :
              i < j =>
                 /\ RuleIndex(ret[1][i]) <= RuleIndex(ret[1][j])
                 /\ (RuleIndex(ret[1][i]) = 4 /\ RuleIndex(ret[1][j]) = 4) =>
                       ret[1][i].title.cost >= ret[1][j].title.cost

\* C5 witness: all three inventory entries followed by two Cost Review
\* entries of different cost
C5_Witness ==
    /\ ret # <<>>
    /\ Len(ret[1]) = 5
    /\ ret[1][1].category = "Idle Resources"
    /\ ret[1][2].category = "Storage Optimization"
    /\ ret[1][3].category = "Network Optimization"
    /\ ret[1][4].category = "Cost Review"
    /\ ret[1][5].category = "Cost Review"
    /\ ret[1][4].title.cost > ret[1][5].title.cost

---------------------------------------------------------------------------
(* utils/cost_explorer.py: CostExplorerClient.get_cost_trends               *)
(*                                                                         *)
(* prev_response is what the previous-period query gave:                   *)
(*   [outcome |-> "ok", results |-> <<amount, ...>>]  the Total amount of   *)
(*                         each ResultsByTime entry, in mills              *)
(*   [outcome |-> "ClientError"]   the billing API call raised             *)
(*   [outcome |-> "KeyError"]      an entry lacks Total/UnblendedCost       *)
(* Percentages are counted in hundredths of a percent: 22.66 is 2266.      *)

\* the loop "prev_cost += float(result['Total']['UnblendedCost']['Amount'])"
RECURSIVE prev_cost_loop(_, _)
prev_cost_loop(prev_cost, results) ==
    IF results = <<>> THEN prev_cost
    ELSE prev_cost_loop(prev_cost + Head(results), Tail(results))

\* round(n / d * 100, 2) for d > 0: the possible results (a tie gives both)
RoundPercent(n, d) ==
    LET x  == n * 10000
        fl == x \div d
        r  == x % d
    IN  IF 2 * r < d THEN {fl}
        ELSE IF 2 * r > d THEN {fl + 1}
        ELSE {fl, fl + 1}

\* mutant: the ratio is not scaled to a percentage (the "* 100" is missing)
delta_percent_unscaled(delta_absolute, prev_cost) ==
    IF prev_cost > 0
    THEN LET fl == (delta_absolute * 100) \div prev_cost
             r  == (delta_absolute * 100) % prev_cost
         IN  IF 2 * r < prev_cost THEN {fl} ELSE {fl + 1}
    ELSE {0}

\* round((delta_absolute / prev_cost * 100) if prev_cost > 0 else 0, 2)
delta_percent_of(delta_absolute, prev_cost) ==
    IF prev_cost > 0 THEN RoundPercent(delta_absolute, prev_cost) ELSE {0}

\* mutant: a zero delta counts as increasing (>= for >)
trend_of_ge(delta_absolute) ==
    IF delta_absolute >= 0 THEN "increasing" ELSE "decreasing"

\* 'increasing' if delta_absolute > 0 else 'decreasing'
trend_of(delta_absolute) ==
    IF delta_absolute > 0 THEN "increasing" ELSE "decreasing"

\* mutant: the previous window ends on the day the current one starts
prev_window_ending_at_start(start_date, end_date) ==
    LET duration == toordinal(end_date) - toordinal(start_date)
    IN  [Start |-> datetime_isoformat(minus_days(start_date, duration)),
         End   |-> datetime_isoformat(start_date)]

\* the TimePeriod of the previous-period query.  start_date and end_date are
\* the dates that datetime.fromisoformat reads from the ISO strings given.
prev_window(start_date, end_date) ==
    LET duration   == toordinal(end_date) - toordinal(start_date)
        prev_end   == minus_days(start_date, 1)
        prev_start == minus_days(prev_end, duration)
    IN  [Start |-> datetime_isoformat(prev_start), End |-> datetime_isoformat(prev_end)]

\* mutant: the except branch fills the missing fields with zeros
trends_unavailable_zeros(cost) ==
    {[current_period |-> c, previous_period |-> 0, delta_absolute |-> 0,
      delta_percent |-> 0, trend |-> "decreasing"] : c \in Round2(cost)}

\* the except branch: what is returned when anything in the try block raised
trends_unavailable(cost) ==
    {[current_period |-> c, error |-> "Unable to calculate trend data"] :
        c \in Round2(cost)}

\* the values get_cost_trends(cost, ...) can return; it never raises
get_cost_trends(cost, prev) ==
    IF prev.outcome # "ok" THEN trends_unavailable(cost)
    ELSE LET prev_cost      == prev_cost_loop(0, prev.results)
             delta_absolute == cost - prev_cost
         IN  {[current_period  |-> c,
               previous_period |-> p,
               delta_absolute  |-> d,
               delta_percent   |-> q,
               trend           |-> trend_of(delta_absolute)] :
                 c \in Round2(cost), p \in Round2(prev_cost),
                 d \in Round2(delta_absolute),
                 q \in delta_percent_of(delta_absolute, prev_cost)}

---------------------------------------------------------------------------
(* Specification SpecTrends: get_cost_trends on small costs with down to   *)
(* one mill of precision, and on the figures of the repository's test.     *)

\* most ResultsByTime entries of a previous-period response
MaxResults == 2

SmallCosts == {0, 10, 1000, 1004}
SmallAmounts == {-1000, 0, 4, 996, 1000}

OkResponse(results) == [outcome |-> "ok", results |-> results]

FailedResponses == {[outcome |-> "ClientError"], [outcome |-> "KeyError"]}

TrendInputs ==
    (SmallCosts \X ({OkResponse(r) : r \in SeqsUpTo(SmallAmounts, MaxResults)}
                    \cup FailedResponses))
    \cup ({200000, 245320} \X {OkResponse(<<200000>>), OkResponse(<<100000, 100000>>),
                               OkResponse(<<199996>>)})

\* the current windows [start_date, end_date]: the handler's 30 days across a
\* year's end, across the end of a leap February, one day, two days
WindowInputs ==
    {<<[year |-> 2025, month |-> 1, day |-> 5], [year |-> 2025, month |-> 2, day |-> 4]>>,
     <<[year |-> 2024, month |-> 3, day |-> 1], [year |-> 2024, month |-> 3, day |-> 31]>>,
     <<[year |-> 2025, month |-> 3, day |-> 1], [year |-> 2025, month |-> 3, day |-> 1]>>,
     <<[year |-> 2025, month |-> 1, day |-> 1], [year |-> 2025, month |-> 1, day |-> 2]>>}

CallGetCostTrends ==
    /\ ret = <<>>
    /\ \E in \in TrendInputs, window \in WindowInputs :
         /\ current_cost' = in[1]
         /\ call' = [name |-> "get_cost_trends",
                     start_date |-> window[1], end_date |-> window[2]]
         /\ prev_request' = prev_window(window[1], window[2])
         /\ prev_response' = in[2]
         /\ \E r \in get_cost_trends(in[1], in[2]) : ret' = <<r>>
    /\ UNCHANGED <<idle_resources, service_costs, handlerVars>>

NextTrends == CallGetCostTrends

SpecTrends == InitPure /\ [][NextTrends]_vars

---------------------------------------------------------------------------
(* Claims about get_cost_trends (SpecTrends) *)

\* the call returned the full comparison
Compared == ret # <<>> /\ prev_response.outcome = "ok"

\* the previous-period total the response adds up to
PrevTotal == SumSeq(prev_response.results)

\* q is n / d x 100 rounded to 2 decimal places (d # 0)
IsRoundedPercent(q, n, d) == Abs(q * d - n * 10000) <= Abs(d) \div 2

\* C6 as stated: the returned delta_absolute is current - previous (read
\* here up to the rounding of the returned field), and the trend is
\* 'increasing' iff that delta_absolute > 0, else 'decreasing'.
C6_TrendIffReturnedDeltaPositive ==
    Compared =>
        /\ IsRoundedTo2(ret[1].delta_absolute, current_cost - PrevTotal)
        /\ ret[1].trend = "increasing" <=> ret[1].delta_absolute > 0
        /\ ret[1].trend \in {"increasing", "decreasing"}

\* C6 amended: the returned delta_absolute is current - previous rounded to 2
\* decimal places, and the trend is 'increasing' iff the unrounded difference
\* current - previous is > 0, otherwise 'decreasing' (equal costs are
\* 'decreasing'); 245.32 against 200.00 gives 45.32 and 'increasing'.
C6_TrendIffDifferencePositive ==
    Compared =>
        /\ IsRoundedTo2(ret[1].delta_absolute, current_cost - PrevTotal)
        /\ ret[1].trend = "increasing" <=> current_cost - PrevTotal > 0
        /\ ret[1].trend \in {"increasing", "decreasing"}
        /\ (current_cost = 245320 /\ PrevTotal = 200000) =>
              ret[1].delta_absolute = 45320 /\ ret[1].trend = "increasing"

\* C6 witness: equal current and previous costs, classified 'decreasing'
C6_Witness ==
    /\ Compared
    /\ current_cost = 200000
    /\ PrevTotal = 200000
    /\ ret[1].delta_absolute = 0
    /\ ret[1].trend = "decreasing"

\* C7 as stated: delta_percent is delta / previous x 100 rounded to 2 places
\* whenever the previous total is not 0, and 0 when it is 0.
C7_PercentUnlessPreviousZero ==
    Compared =>
        /\ PrevTotal # 0 =>
              IsRoundedPercent(ret[1].delta_percent, current_cost - PrevTotal, PrevTotal)
        /\ PrevTotal = 0 => ret[1].delta_percent = 0

\* C7 amended: delta_percent is delta / previous x 100 rounded to 2 places
\* for every previous total greater than 0, and 0 (no error) for every
\* previous total that is 0 or negative; 245.32 against 200.00 gives 22.66.
C7_PercentIfPreviousPositive ==
    Compared =>
        /\ PrevTotal > 0 =>
              IsRoundedPercent(ret[1].delta_percent, current_cost - PrevTotal, PrevTotal)
        /\ PrevTotal <= 0 => ret[1].delta_percent = 0
        /\ (current_cost = 245320 /\ PrevTotal = 200000) => ret[1].delta_percent = 2266

\* C7 witness: a previous total of 0 under a positive current cost, answered
\* with delta_percent 0
C7_Witness ==
    /\ Compared
    /\ PrevTotal = 0
    /\ current_cost > 0
    /\ ret[1].delta_percent = 0
    /\ ret[1].trend = "increasing"

---------------------------------------------------------------------------
(* utils/cost_explorer.py: get_cost_and_usage, get_cost_by_service          *)
(*                                                                         *)
(* A billing answer is [outcome |-> "ok", results |-> <<result, ...>>],     *)
(* each result [start |-> date, groups |-> <<[key, amount], ...>>] with    *)
(* the UnblendedCost amount in mills, or [outcome |-> e] with e the        *)
(* exception the call raised: "ClientError", or any other                  *)
(* ("EndpointConnectionError" stands for those that are no ClientError).   *)
(* A method's outcome is [raised |-> TRUE, error |-> e] or                 *)
(* [raised |-> FALSE, value |-> v].                                        *)

Raised(e) == [raised |-> TRUE, error |-> e]
Returned(v) == [raised |-> FALSE, value |-> v]

\* the inner loop "day_cost += cost"
RECURSIVE day_cost_loop(_, _)
day_cost_loop(day_cost, groups) ==
    IF groups = <<>> THEN day_cost
    ELSE day_cost_loop(day_cost + Head(groups).amount, Tail(groups))

\* mutant: "total_cost = day_cost", the total is the last period's cost
RECURSIVE total_cost_loop_last_day(_, _)
total_cost_loop_last_day(total_cost, results) ==
    IF results = <<>> THEN total_cost
    ELSE total_cost_loop_last_day(day_cost_loop(0, Head(results).groups), Tail(results))

\* the outer loop's total_cost
RECURSIVE total_cost_loop(_, _)
total_cost_loop(total_cost, results) ==
    IF results = <<>> THEN total_cost
    ELSE total_cost_loop(total_cost + day_cost_loop(0, Head(results).groups), Tail(results))

\* the outer loop's daily_costs: the lists it can build
RECURSIVE daily_costs_of(_)
daily_costs_of(results) ==
    IF results = <<>> THEN {<<>>}
    ELSE {<<[date |-> Head(results).start, cost |-> c]>> \o rest :
            c \in Round2(day_cost_loop(0, Head(results).groups)),
            rest \in daily_costs_of(Tail(results))}

\* mutant: a failed fetch is answered with an empty cost record
get_cost_and_usage_zero_on_error(resp) ==
    IF resp.outcome # "ok"
    THEN {Returned([total_cost |-> 0, daily_costs |-> <<>>, currency |-> "USD"])}
    ELSE {Returned([total_cost |-> t, daily_costs |-> d, currency |-> "USD"]) :
            t \in Round2(total_cost_loop(0, resp.results)),
            d \in daily_costs_of(resp.results)}

\* the outcomes of get_cost_and_usage: a ClientError is logged and re-raised,
\* any other exception propagates
get_cost_and_usage(resp) ==
    IF resp.outcome # "ok" THEN {Raised(resp.outcome)}
    ELSE {Returned([total_cost |-> t, daily_costs |-> d, currency |-> "USD"]) :
            t \in Round2(total_cost_loop(0, resp.results)),
            d \in daily_costs_of(resp.results)}

\* all groups of all results, in the order the two loops visit them
RECURSIVE all_groups(_)
all_groups(results) ==
    IF results = <<>> THEN <<>> ELSE Head(results).groups \o all_groups(Tail(results))

\* services[service] += cost / services[service] = cost, on the dict kept as
\* a sequence in insertion order
add_service_cost(services, group) ==
    IF \E i \in 1..Len(services) : services[i].service = group.key
    THEN [i \in 1..Len(services) |->
            IF services[i].service = group.key
            THEN [services[i] EXCEPT !.cost = @ + group.amount]
            ELSE services[i]]
    ELSE Append(services, [service |-> group.key, cost |-> group.amount])

RECURSIVE accumulate_services(_, _)
accumulate_services(services, groups) ==
    IF groups = <<>> THEN services
    ELSE accumulate_services(add_service_cost(services, Head(groups)), Tail(groups))

\* how many amounts were added up into the cost of the service
addends(groups, service) == Cardinality({i \in 1..Len(groups) : groups[i].key = service})

\* "v > 0.01" on the float v: exact for a single parsed amount; a float sum
\* whose decimal value is exactly 0.01 can fall on either side (0.3 + -0.29
\* is 0.010000000000000009)
above_noise(cost, n) == IF cost = 10 /\ n > 1 THEN {TRUE, FALSE} ELSE {cost > 10}

\* {k: round(v, 2) for k, v in services.items() if v > 0.01}: the dicts it
\* can build
RECURSIVE round_and_filter(_, _)
round_and_filter(services, groups) ==
    IF services = <<>> THEN {<<>>}
    ELSE UNION {
           IF kept
           THEN {<<[service |-> Head(services).service, cost |-> c]>> \o rest :
                   c \in Round2(Head(services).cost),
                   rest \in round_and_filter(Tail(services), groups)}
           ELSE round_and_filter(Tail(services), groups) :
           kept \in above_noise(Head(services).cost,
                                addends(groups, Head(services).service))}

\* mutant: the slice is taken without sorting
get_top_services_unsorted(services, top_n) == Take(services, top_n)

\* _get_top_services(services, top_n)
get_top_services(services, top_n) == Take(sorted_by_cost_desc(services), top_n)

\* the outcomes of get_cost_by_service
get_cost_by_service(resp) ==
    IF resp.outcome # "ok" THEN {Raised(resp.outcome)}
    ELSE {Returned([services |-> sv, top_5_services |-> get_top_services(sv, 5)]) :
            sv \in round_and_filter(accumulate_services(<<>>, all_groups(resp.results)),
                                    all_groups(resp.results))}

---------------------------------------------------------------------------
(* utils/resource_scanner.py: ResourceScanner.scan_all_resources            *)
(*                                                                         *)
(* What the provider answers to the describe_* call of a scan:             *)
(*   [outcome |-> "ok", found |-> <<record, ...>>]  the idle resources of   *)
(*                          the category, as the scan flattens them        *)
(*   [outcome |-> "ClientError"]  caught by the scan, which returns []     *)
(*   [outcome |-> e]              any other exception: not caught          *)

\* one scan_* method
scan(answer) ==
    IF answer.outcome = "ok" THEN Returned(answer.found)
    ELSE IF answer.outcome = "ClientError" THEN Returned(<<>>)
    ELSE Raised(answer.outcome)

\* scan_all_resources: the dict of the five scans, unless one of them raised
scan_all_resources(answers) ==
    IF \E c \in Categories : scan(answers[c]).raised
    THEN Raised((CHOOSE c \in Categories : scan(answers[c]).raised))
    ELSE Returned([c \in Categories |-> scan(answers[c]).value])

---------------------------------------------------------------------------
(* utils/s3_writer.py: S3Writer.write_daily_report                          *)

S3_BUCKET == "cost-data-bucket"
ENVIRONMENT == "dev"

\* the date-partitioned key of write_daily_report
s3_key(date) ==
    "reports/" \o "year=" \o ToString(date.year) \o "/" \o "month=" \o Pad2(date.month)
    \o "/" \o "day=" \o Pad2(date.day) \o "/" \o "cost-report-" \o isoformat(date) \o ".json"

latest_key == "reports/latest/cost-report.json"

\* The fields that hold a datetime.date in the documents of this model; every
\* other value is a str, a number, a list or a dict with str keys, which JSON
\* has as they are.
NonNativeFields == {"generated_on"}

\* default=str on a date: str(date) is its ISO text
json_default(value) == isoformat(value)

\* json.dumps(report, indent=2, default=str): the text stored as the body,
\* given as the JSON value it spells
json_dumps(document) ==
    [json |-> [k \in DOMAIN document |->
                 IF k \in NonNativeFields THEN json_default(document[k]) ELSE document[k]]]

\* json.loads(report_json): the dict the text spells
json_loads(text) == text.json

\* the dict {}
EmptyDict == <<>>

\* the bucket after a successful put_object
put_object(bucket, key, body) == [k \in DOMAIN bucket \cup {key} |->
                                    IF k = key THEN body ELSE bucket[k]]

\* mutant: the latest pointer is uploaded first, the dated object second
write_daily_report_latest_first(bucket, document, date, puts) ==
    LET report_json == json_dumps(document)
        latest == put_object(bucket, latest_key, report_json)
    IN  IF puts[1] # "ok" THEN [bucket |-> bucket, outcome |-> Raised(puts[1])]
        ELSE IF puts[2] # "ok" THEN [bucket |-> latest, outcome |-> Raised(puts[2])]
        ELSE [bucket |-> put_object(latest, s3_key(date), report_json),
              outcome |-> Returned(s3_key(date))]

\* mutant: a failed upload of the latest pointer is not raised
write_daily_report_latest_unchecked(bucket, document, date, puts) ==
    LET report_json == json_dumps(document)
        dated == put_object(bucket, s3_key(date), report_json)
    IN  IF puts[1] # "ok" THEN [bucket |-> bucket, outcome |-> Raised(puts[1])]
        ELSE IF puts[2] # "ok" THEN [bucket |-> dated, outcome |-> Returned(s3_key(date))]
        ELSE [bucket |-> put_object(dated, latest_key, report_json),
              outcome |-> Returned(s3_key(date))]

\* What write_daily_report does to the bucket and how it ends; puts says how
\* the two put_object calls end, "ok" or the exception raised (the second is
\* not made when the first raised).  A ClientError is logged and re-raised.
write_daily_report(bucket, document, date, puts) ==
    LET report_json == json_dumps(document)
        dated == put_object(bucket, s3_key(date), report_json)
    IN  IF puts[1] # "ok" THEN [bucket |-> bucket, outcome |-> Raised(puts[1])]
        ELSE IF puts[2] # "ok" THEN [bucket |-> dated, outcome |-> Raised(puts[2])]
        ELSE [bucket |-> put_object(dated, latest_key, report_json),
              outcome |-> Returned(s3_key(date))]

\* How read_latest_report ends; get says how get_object ends when the object
\* is there ("ok" or the exception raised), and a missing object is S3's
\* NoSuchKey, a ClientError.  A ClientError is logged and {} is returned,
\* any other exception propagates.
read_latest_report(bucket, get) ==
    IF get \notin {"ok", "ClientError"} THEN Raised(get)
    ELSE IF get = "ClientError" \/ latest_key \notin DOMAIN bucket THEN Returned(EmptyDict)
    ELSE Returned(json_loads(bucket[latest_key]))

---------------------------------------------------------------------------
(* handler.py: send_cloudwatch_metrics *)

\* mutant: the third metric carries the total cost again
metrics_of_total_twice(document) ==
    <<[MetricName |-> "TotalDailyCost", Value |-> document.summary.total_cost,
       Unit |-> "None"],
      [MetricName |-> "IdleResourcesCount", Value |-> document.summary.idle_resources_count,
       Unit |-> "Count"],
      [MetricName |-> "PotentialSavings", Value |-> document.summary.total_cost,
       Unit |-> "None"]>>

\* the three metrics, in the order they are put
metrics_of(document) ==
    <<[MetricName |-> "TotalDailyCost", Value |-> document.summary.total_cost,
       Unit |-> "None"],
      [MetricName |-> "IdleResourcesCount", Value |-> document.summary.idle_resources_count,
       Unit |-> "Count"],
      [MetricName |-> "PotentialSavings", Value |-> document.summary.potential_savings,
       Unit |-> "None"]>>

\* mutant: the exception of a failed push leaves send_cloudwatch_metrics
send_cloudwatch_metrics_raising(sink, document, accepted) ==
    [sink |-> sink \o SubSeq(metrics_of(document), 1, accepted),
     outcome |-> IF accepted < Len(metrics_of(document))
                 THEN Raised("ClientError") ELSE Returned("None")]

\* What send_cloudwatch_metrics does to the sink and how it ends when the
\* first `accepted` puts succeed and the next one (or, with 0, the client's
\* creation) raises: the exception is logged and swallowed.
send_cloudwatch_metrics(sink, document, accepted) ==
    [sink |-> sink \o SubSeq(metrics_of(document), 1, accepted),
     outcome |-> Returned("None")]

---------------------------------------------------------------------------
(* handler.py: lambda_handler, one action per call it makes.  An exception *)
(* raised by a call ends the run in the except branch (status 500).        *)

Dates == {[year |-> 2025, month |-> 2, day |-> 4], [year |-> 2025, month |-> 11, day |-> 23]}

Group(k, a) == [key |-> k, amount |-> a]

\* the billing API's answers to get_cost_and_usage
CostResponses ==
    {[outcome |-> "ok", results |-> <<>>],
     [outcome |-> "ok",
      results |-> <<[start |-> "2025-01-01", groups |-> <<Group("Amazon EC2", 100500)>>]>>],
     [outcome |-> "ok",
      results |-> <<[start |-> "2025-01-01",
                     groups |-> <<Group("Amazon EC2", 100000), Group("Amazon RDS", 45320)>>],
                    [start |-> "2025-01-02",
                     groups |-> <<Group("Amazon EC2", 100000)>>]>>],
     [outcome |-> "ClientError"],
     [outcome |-> "EndpointConnectionError"]}

\* its answers to get_cost_by_service
ServiceResponses ==
    {[outcome |-> "ok", results |-> <<>>],
     [outcome |-> "ok",
      results |-> <<[start |-> "2025-01-01",
                     groups |-> <<Group("Amazon EC2", 150000), Group("Amazon RDS", 80000)>>]>>],
     [outcome |-> "ok",
      results |-> <<[start |-> "2025-01-01",
                     groups |-> <<Group("Amazon S3", 4), Group("Amazon EC2", 100000)>>],
                    [start |-> "2025-02-01",
                     groups |-> <<Group("AWS Lambda", 120000), Group("Amazon EC2", 50000)>>]>>],
     [outcome |-> "ClientError"],
     [outcome |-> "EndpointConnectionError"]}

\* a record as the scan of a category flattens it (the priced attributes)
ScannedItem(cat) ==
    CASE cat = "ec2_stopped"      -> [type |-> "t3.large"]
      [] cat = "ebs_unattached"   -> [size |-> 100, type |-> "gp2"]
      [] cat = "eip_unassociated" -> [allocation_id |-> "eipalloc-1"]
      [] cat = "rds_stopped"      -> [instance_class |-> "db.t3.small", storage |-> 20]
      [] cat = "elb_unused"       -> [arn |-> "arn-1"]

\* the provider's answers to the scan of a category
ScanAnswers(cat) ==
    {[outcome |-> "ok", found |-> <<>>],
     [outcome |-> "ok", found |-> <<ScannedItem(cat)>>],
     [outcome |-> "ok",
      found |-> IF cat = "ec2_stopped" THEN <<[type |-> "t3.micro"], ScannedItem(cat)>>
                ELSE <<ScannedItem(cat)>>],
     [outcome |-> "ClientError"],
     [outcome |-> "EndpointConnectionError"]}

\* the billing API's answers to the previous-period query
PrevResponses ==
    {OkResponse(<<>>), OkResponse(<<200000>>), OkResponse(<<100496>>),
     [outcome |-> "ClientError"], [outcome |-> "KeyError"]}

PutOutcomes == {<<"ok", "ok">>, <<"ok", "ClientError">>, <<"ClientError", "ok">>,
                <<"EndpointConnectionError", "ok">>}

Init ==
    /\ pc = "get_cost_and_usage"
    /\ today \in Dates
    /\ cost_data = Unset
    /\ service_costs = Unset
    /\ idle_resources = Unset
    /\ cost_trends = Unset
    /\ potential_savings = Unset
    /\ recommendations = Unset
    /\ report = Unset
    /\ response = Unset
    /\ s3 = <<>>
    /\ cloudwatch = <<>>
    /\ cost_response = NoResponse
    /\ service_response = NoResponse
    /\ scan_outcomes = Unset
    /\ prev_request = Unset
    /\ prev_response = NoResponse
    /\ current_cost = 0
    /\ ret = <<>>
    /\ call = NoCall

\* the except branch of lambda_handler
Fail(e) ==
    /\ pc' = "done"
    /\ response' = [statusCode |-> 500,
                    body |-> json_dumps([message |-> "Cost ingestion failed", error |-> e])]

\* 1. cost_data = cost_explorer.get_cost_and_usage(...)
GetCostAndUsage ==
    /\ pc = "get_cost_and_usage"
    /\ \E resp \in CostResponses :
         /\ cost_response' = resp
         /\ \E out \in get_cost_and_usage(resp) :
              IF out.raised
              THEN Fail(out.error) /\ UNCHANGED cost_data
              ELSE /\ cost_data' = out.value
                   /\ pc' = "get_cost_by_service"
                   /\ UNCHANGED response
    /\ UNCHANGED <<today, service_costs, idle_resources, cost_trends, report, s3, cloudwatch,
                   service_response, scan_outcomes, prev_request, prev_response, current_cost, ret, call,
                   potential_savings, recommendations>>

\* 2. service_costs = cost_explorer.get_cost_by_service(...)
GetCostByService ==
    /\ pc = "get_cost_by_service"
    /\ \E resp \in ServiceResponses :
         /\ service_response' = resp
         /\ \E out \in get_cost_by_service(resp) :
              IF out.raised
              THEN Fail(out.error) /\ UNCHANGED service_costs
              ELSE /\ service_costs' = out.value
                   /\ pc' = "scan_all_resources"
                   /\ UNCHANGED response
    /\ UNCHANGED <<today, cost_data, idle_resources, cost_trends, report, s3, cloudwatch,
                   cost_response, scan_outcomes, prev_request, prev_response, current_cost, ret, call,
                   potential_savings, recommendations>>

\* 3. idle_resources = resource_scanner.scan_all_resources()
ScanAllResources ==
    /\ pc = "scan_all_resources"
    /\ \E answers \in [Categories -> UNION {ScanAnswers(c) : c \in Categories}] :
         /\ \A c \in Categories : answers[c] \in ScanAnswers(c)
         /\ scan_outcomes' = answers
         /\ LET out == scan_all_resources(answers)
            IN  IF out.raised
                THEN Fail(answers[out.error].outcome) /\ UNCHANGED idle_resources
                ELSE /\ idle_resources' = out.value
                     /\ pc' = "get_cost_trends"
                     /\ UNCHANGED response
    /\ UNCHANGED <<today, cost_data, service_costs, cost_trends, report, s3, cloudwatch,
                   cost_response, service_response, prev_request, prev_response, current_cost, ret, call,
                   potential_savings, recommendations>>

\* 4. cost_trends = cost_explorer.get_cost_trends(cost_data.get('total_cost', 0), ...)
GetCostTrends ==
    /\ pc = "get_cost_trends"
    /\ current_cost' = Get(cost_data, "total_cost", 0)
    /\ prev_request' = prev_window(minus_days(today, 30), today)
    /\ \E resp \in PrevResponses :
         /\ prev_response' = resp
         /\ \E t \in get_cost_trends(Get(cost_data, "total_cost", 0), resp) :
              cost_trends' = t
    /\ pc' = "calculate_potential_savings"
    /\ UNCHANGED <<today, cost_data, service_costs, idle_resources, report, response, s3,
                   cloudwatch, cost_response, service_response, scan_outcomes, ret, call,
                   potential_savings, recommendations>>

\* mutant: the savings are estimated before the trends are calculated
CalculatePotentialSavings_before_trends ==
    /\ pc = "get_cost_trends"
    /\ potential_savings = Unset
    /\ \E savings \in calculate_potential_savings(idle_resources) :
         potential_savings' = Assigned(savings)
    /\ UNCHANGED <<pc, today, cost_data, service_costs, idle_resources, cost_trends,
                   recommendations, report, response, s3, cloudwatch, cost_response,
                   service_response, scan_outcomes, prev_request, prev_response,
                   current_cost, ret, call>>

\* 5. report = {...}: the values of the dict display are evaluated in the
\* order they are written, 'potential_savings' first
CalculatePotentialSavings ==
    /\ pc = "calculate_potential_savings"
    /\ \E savings \in calculate_potential_savings(idle_resources) :
         potential_savings' = Assigned(savings)
    /\ pc' = "generate_recommendations"
    /\ UNCHANGED <<today, cost_data, service_costs, idle_resources, cost_trends,
                   recommendations, report, response, s3, cloudwatch, cost_response,
                   service_response, scan_outcomes, prev_request, prev_response,
                   current_cost, ret, call>>

\* then 'recommendations'
GenerateRecommendations ==
    /\ pc = "generate_recommendations"
    /\ recommendations' = Assigned(generate_recommendations(idle_resources, service_costs))
    /\ pc' = "build_report"
    /\ UNCHANGED <<today, cost_data, service_costs, idle_resources, cost_trends,
                   potential_savings, report, response, s3, cloudwatch, cost_response,
                   service_response, scan_outcomes, prev_request, prev_response,
                   current_cost, ret, call>>

\* and the dict is built
BuildReport ==
    /\ pc = "build_report"
    /\ report' = [timestamp |-> "now",
                  date |-> isoformat(today),
                  environment |-> ENVIRONMENT,
                  summary |-> [total_cost |-> Get(cost_data, "total_cost", 0),
                               idle_resources_count |-> idle_resources_count(idle_resources),
                               potential_savings |-> potential_savings.value],
                  cost_data |-> cost_data,
                  service_breakdown |-> service_costs,
                  idle_resources |-> idle_resources,
                  trends |-> cost_trends,
                  recommendations |-> recommendations.value]
    /\ pc' = "write_daily_report"
    /\ UNCHANGED <<today, cost_data, service_costs, idle_resources, cost_trends,
                   potential_savings, recommendations, response, s3, cloudwatch,
                   cost_response, service_response, scan_outcomes, prev_request,
                   prev_response, current_cost, ret, call>>

\* 6. s3_key = s3_writer.write_daily_report(report, end_date)
WriteDailyReport ==
    /\ pc = "write_daily_report"
    /\ \E puts \in PutOutcomes :
         LET w == write_daily_report(s3, report, today, puts)
         IN  /\ s3' = w.bucket
             /\ IF w.outcome.raised
                THEN Fail(w.outcome.error)
                ELSE pc' = "send_cloudwatch_metrics" /\ UNCHANGED response
    /\ UNCHANGED <<today, cost_data, service_costs, idle_resources, cost_trends, report,
                   cloudwatch, cost_response, service_response, scan_outcomes, prev_request, prev_response,
                   current_cost, ret, call,
                   potential_savings, recommendations>>

\* 7. send_cloudwatch_metrics(report); return {'statusCode': 200, ...}
SendMetricsAndReturn ==
    /\ pc = "send_cloudwatch_metrics"
    /\ \E accepted \in 0..3 :
         LET m == send_cloudwatch_metrics(cloudwatch, report, accepted)
         IN  /\ cloudwatch' = m.sink
             /\ IF m.outcome.raised
                THEN Fail(m.outcome.error)
                ELSE /\ response' =
                          [statusCode |-> 200,
                           body |-> json_dumps(
                              [message |-> "Cost ingestion completed successfully",
                               summary |-> report.summary,
                               s3_location |-> "s3://" \o S3_BUCKET \o "/" \o s3_key(today)])]
                     /\ pc' = "done"
    /\ UNCHANGED <<today, cost_data, service_costs, idle_resources, cost_trends, report, s3,
                   cost_response, service_response, scan_outcomes, prev_request, prev_response,
                   current_cost, ret, call,
                   potential_savings, recommendations>>

Next ==
    \/ GetCostAndUsage
    \/ GetCostByService
    \/ ScanAllResources
    \/ GetCostTrends
    \/ CalculatePotentialSavings
    \/ GenerateRecommendations
    \/ BuildReport
    \/ WriteDailyReport
    \/ SendMetricsAndReturn

Spec == Init /\ [][Next]_vars

---------------------------------------------------------------------------
(* Claims about lambda_handler's handling of failed fetches (Spec) *)

Failed(answer) == answer.outcome \notin {"none", "ok"}

\* the handler has returned the given status
ReturnedStatus(code) == pc = "done" /\ response # Unset /\ response.statusCode = code

\* the report assembled in this run is in the bucket, under both keys
ReportStored ==
    /\ report # Unset
    /\ DOMAIN s3 = {s3_key(today), latest_key}
    /\ s3[s3_key(today)] = json_dumps(report)
    /\ s3[latest_key] = json_dumps(report)

\* C8: when the previous-period query fails in any way, get_cost_trends
\* returns (it does not raise) a result holding only current_period, the
\* rounded current cost, and an error indicator; the handler goes on to
\* assemble the report with it, only the report sink can still end the run
\* with status 500, and when the sink accepts the report it is stored with
\* that partial trend and the run ends with status 200.
C8_TrendFailureStillReports ==
    Failed(prev_response) =>
        /\ DOMAIN cost_trends = {"current_period", "error"}
        /\ IsRoundedTo2(cost_trends.current_period, cost_data.total_cost)
        /\ pc \in {"calculate_potential_savings", "generate_recommendations", "build_report",
                   "write_daily_report", "send_cloudwatch_metrics", "done"}
        /\ pc \in {"write_daily_report", "send_cloudwatch_metrics", "done"}
              => report # Unset /\ report.trends = cost_trends
        /\ pc = "send_cloudwatch_metrics" => ReportStored
        /\ pc = "done" =>
              \/ ReturnedStatus(200) /\ ReportStored
              \/ ReturnedStatus(500) /\ latest_key \notin DOMAIN s3 /\ cloudwatch = <<>>

\* C8 witness: the previous-period query raised, and the run ended with
\* status 200 and the report, partial trend included, under the latest key
C8_Witness ==
    /\ prev_response.outcome = "ClientError"
    /\ ReturnedStatus(200)
    /\ latest_key \in DOMAIN s3
    /\ DOMAIN s3[latest_key].json.trends = {"current_period", "error"}
    /\ s3[latest_key].json.trends.error = "Unable to calculate trend data"

\* C9: when get_cost_and_usage or get_cost_by_service fails, the run is over:
\* no report is assembled, nothing is in the bucket (neither the dated key
\* nor the latest pointer), no metric is pushed, and the status is 500.
C9_BillingFailureAborts ==
    (Failed(cost_response) \/ Failed(service_response)) =>
        /\ ReturnedStatus(500)
        /\ report = Unset
        /\ DOMAIN s3 = {}
        /\ cloudwatch = <<>>
        /\ idle_resources = Unset
        /\ cost_trends = Unset

\* C9 witness: get_cost_by_service failed after get_cost_and_usage succeeded,
\* and the run ended with status 500 and an empty bucket
C9_Witness ==
    /\ cost_response.outcome = "ok"
    /\ cost_data # Unset
    /\ service_response.outcome = "ClientError"
    /\ ReturnedStatus(500)
    /\ DOMAIN s3 = {}

\* C10: when the provider call of a scan fails, no report is stored in which
\* that category is an empty list (counting zero resources and zero savings).
C10_ScanFailureAborts ==
    scan_outcomes # Unset =>
        \A c \in Categories :
            Failed(scan_outcomes[c]) =>
                \A k \in DOMAIN s3 : s3[k].json.idle_resources[c] # <<>>

---------------------------------------------------------------------------
(* Claims about the metrics sink and the assembled report (Spec) *)

\* send_cloudwatch_metrics was called (only a stored report gets there) and
\* returned or raised
MetricsStepOver == pc = "done" /\ latest_key \in DOMAIN s3

\* fewer than the three metrics reached the sink: a push (or the client's
\* creation) failed
MetricsSinkFailed == MetricsStepOver /\ Len(cloudwatch) < 3

\* C11: when the metrics sink fails at any of the three pushes, the report
\* is already stored under both keys, the metrics before the failed push are
\* in the sink, and the handler returns status 200 with the report summary.
C11_MetricsFailureNeverAborts ==
    MetricsSinkFailed =>
        /\ ReportStored
        /\ ReturnedStatus(200)
        /\ response.body.json.summary = report.summary
        /\ cloudwatch = SubSeq(metrics_of(report), 1, Len(cloudwatch))

\* C11 witness: the second push failed; one metric is in the sink and the run
\* ended with status 200
C11_Witness ==
    /\ MetricsSinkFailed
    /\ Len(cloudwatch) = 1
    /\ cloudwatch[1].MetricName = "TotalDailyCost"
    /\ ReturnedStatus(200)

\* C12: in every assembled report, summary.idle_resources_count is the sum of
\* the lengths of the five lists of the report's own idle_resources field, and
\* summary.potential_savings is the estimate of that same inventory: the
\* table sum of its items, rounded to 2 decimals.
C12_SummaryMatchesInventory ==
    report # Unset =>
        /\ DOMAIN report.idle_resources = Categories
        /\ report.summary.idle_resources_count
              = Len(report.idle_resources["ec2_stopped"])
                + Len(report.idle_resources["ebs_unattached"])
                + Len(report.idle_resources["eip_unassociated"])
                + Len(report.idle_resources["rds_stopped"])
                + Len(report.idle_resources["elb_unused"])
        /\ report.summary.potential_savings
              \in calculate_potential_savings(report.idle_resources)
        /\ Attributed(report.idle_resources)
        /\ IsRoundedTo2(report.summary.potential_savings, TableSum(report.idle_resources))

\* C12 witness: a report over an inventory of two resources in two
\* categories, with savings to report
C12_Witness ==
    /\ report # Unset
    /\ report.summary.idle_resources_count = 2
    /\ Len(report.idle_resources["ec2_stopped"]) = 1
    /\ Len(report.idle_resources["rds_stopped"]) = 1
    /\ report.summary.potential_savings > 0

---------------------------------------------------------------------------
(* Specification SpecServices: get_cost_by_service and get_cost_and_usage  *)
(* on every answer of at most MaxGroups groups spread over two periods,    *)
(* _get_top_services on every cost map of at most MaxTopServices services  *)
(* and every top_n up to MaxTopServices, and generate_recommendations (its *)
(* top-3 selection).                                                       *)

\* most groups the billing API returns, both periods together
MaxGroups == 3

\* most services of a cost map given to _get_top_services, and largest top_n
MaxTopServices == 6

BillingKeys == {"Amazon EC2", "Amazon S3"}

\* UnblendedCost amounts in mills: a credit of 0.29, 0.004, 0.006, 0.014,
\* 0.30, 150.00
BillingAmounts == {-290, 4, 6, 14, 300, 150000}

GroupSeqs == SeqsUpTo({Group(k, a) : k \in BillingKeys, a \in BillingAmounts}, MaxGroups)

\* the billing API's answers: the groups of g, the first p in the first period
ServiceInputs ==
    {[outcome |-> "ok",
      results |-> <<[start |-> "2025-01-01", groups |-> SubSeq(x[1], 1, x[2])],
                    [start |-> "2025-02-01", groups |-> SubSeq(x[1], x[2] + 1, Len(x[1]))]>>] :
        x \in {y \in GroupSeqs \X (0..MaxGroups) : y[2] <= Len(y[1])}}
    \cup {[outcome |-> "ok", results |-> <<>>],
          [outcome |-> "ClientError"], [outcome |-> "EndpointConnectionError"]}

\* monthly costs in mills, few enough that costs tie
TopCostValues == {20000, 80000, 150000}

TopServiceMaps ==
    {[services |-> [i \in 1..Len(costs) |-> [service |-> ServiceNames[i], cost |-> costs[i]]]] :
        costs \in SeqsUpTo(TopCostValues, Min(MaxTopServices, Len(ServiceNames)))}

CallGetCostByService ==
    /\ ret = <<>>
    /\ \E resp \in ServiceInputs :
         /\ service_response' = resp
         /\ \E out \in get_cost_by_service(resp) : ret' = <<out>>
    /\ call' = [name |-> "get_cost_by_service"]
    /\ UNCHANGED <<pc, today, cost_data, service_costs, idle_resources, cost_trends,
                   potential_savings, recommendations, report,
                   response, s3, cloudwatch, cost_response, scan_outcomes, prev_request, prev_response,
                   current_cost>>

CallGetTopServices ==
    /\ ret = <<>>
    /\ \E svc \in TopServiceMaps, n \in 0..MaxTopServices :
         /\ service_costs' = svc
         /\ call' = [name |-> "_get_top_services", top_n |-> n]
         /\ ret' = <<get_top_services(svc.services, n)>>
    /\ UNCHANGED <<idle_resources, current_cost, prev_request, prev_response, handlerVars>>

\* get_cost_and_usage on the same answers of the billing API
CallGetCostAndUsage ==
    /\ ret = <<>>
    /\ \E resp \in ServiceInputs :
         /\ cost_response' = resp
         /\ \E out \in get_cost_and_usage(resp) : ret' = <<out>>
    /\ call' = [name |-> "get_cost_and_usage"]
    /\ UNCHANGED <<pc, today, cost_data, service_costs, idle_resources, cost_trends,
                   potential_savings, recommendations, report, response, s3, cloudwatch,
                   service_response, scan_outcomes, prev_request, prev_response,
                   current_cost>>

NextServices ==
    \/ CallGetCostByService
    \/ CallGetTopServices
    \/ CallGenerateRecommendations
    \/ CallGetCostAndUsage

SpecServices == InitPure /\ [][NextServices]_vars

---------------------------------------------------------------------------
(* Claims about the service breakdown (SpecServices) *)

\* C13: every entry of the 'services' map that get_cost_by_service returns
\* has a reported (rounded) cost strictly greater than 0.01.
C13_ServicesAboveNoise ==
    (call.name = "get_cost_by_service" /\ ret # <<>> /\ ~ret[1].raised) =>
        \A i \in 1..Len(ret[1].value.services) : ret[1].value.services[i].cost > 10

\* the arguments and the result of the _get_top_services call
TopCalled == call.name = "_get_top_services" /\ ret # <<>>

\* the positions of the cost map whose service is among the entries listed
Listed(entries, services) ==
    {j \in 1..Len(services) :
        \E i \in 1..Len(entries) : entries[i].service = services[j].service}

\* the position in the cost map of the service of an entry
PositionOf(entry, services) ==
    CHOOSE j \in 1..Len(services) : services[j].service = entry.service

\* C14: _get_top_services(services, N) returns exactly min(N, number of
\* services) entries, each one a service of the map with its cost and none
\* twice, in non-increasing cost order, and every service left out costs no
\* more than every service included (N is 5 when not given).
C14_TopNHighestInOrder ==
    TopCalled =>
        LET top == ret[1]
        IN  /\ Len(top) = Min(call.top_n, Len(Services))
            /\ \A i \in 1..Len(top) : \E j \in 1..Len(Services) : Services[j] = top[i]
            /\ \A i, k \in 1..Len(top) : i < k =>
                   /\ top[i].service # top[k].service
                   /\ top[i].cost >= top[k].cost
            /\ \A j \in (1..Len(Services)) \ Listed(top, Services) :
                   \A i \in 1..Len(top) : Services[j].cost <= top[i].cost

\* C14 witness: six services, the default N of 5, and the one left out is a
\* cheapest one that is not last in the map
C14_Witness ==
    /\ TopCalled
    /\ call.top_n = 5
    /\ Len(Services) = 6
    /\ Len(ret[1]) = 5
    /\ Services[1].cost = 20000
    /\ Services[6].cost = 150000
    /\ ret[1][1].cost = 150000
    /\ 1 \notin Listed(ret[1], Services)

\* the Cost Review entries of generate_recommendations, as [service, cost]
ReviewedServices(recs) ==
    LET idx == CostReviews(recs)
        RECURSIVE from(_)
        from(i) == IF i > Len(recs) THEN <<>>
                   ELSE (IF i \in idx
                         THEN <<[service |-> recs[i].title.service,
                                 cost |-> recs[i].title.cost]>>
                         ELSE <<>>) \o from(i + 1)
    IN  from(1)

\* entries are in map order wherever their costs tie, and a service left out
\* never precedes, in the map, an included one of the same cost
StableSelection(entries, services, eligible) ==
    /\ \A i, k \in 1..Len(entries) :
          (i < k /\ entries[i].cost = entries[k].cost) =>
              PositionOf(entries[i], services) < PositionOf(entries[k], services)
    /\ \A j \in eligible \ Listed(entries, services) :
          \A i \in 1..Len(entries) :
              entries[i].cost = services[j].cost => PositionOf(entries[i], services) < j

\* C15: among services of equal cost, _get_top_services and the top-3
\* selection of generate_recommendations keep the order of the cost map: tied
\* services are listed in map order, and at the cut-off the tied services
\* that come first in the map are the ones selected.
C15_TiesKeepMapOrder ==
    /\ TopCalled => StableSelection(ret[1], Services, 1..Len(Services))
    /\ (call.name = "generate_recommendations" /\ ret # <<>>) =>
           StableSelection(ReviewedServices(ret[1]), Services,
                           {j \in 1..Len(Services) : Services[j].cost > COST_REVIEW_THRESHOLD})

\* C15 witness: four services of the same cost and N = 2; the first two of
\* the map are returned, in map order
C15_Witness ==
    /\ TopCalled
    /\ call.top_n = 2
    /\ Len(Services) = 4
    /\ \A j \in 1..4 : Services[j].cost = 150000
    /\ ret[1] = <<Services[1], Services[2]>>

\* C15, the generator's side: four services tie above 100; the first three
\* of the map are flagged, in map order
C15_GeneratorTieReached ==
    /\ call.name = "generate_recommendations"
    /\ ret # <<>>
    /\ Len(Services) = 4
    /\ \A j \in 1..4 : Services[j].cost = 150000
    /\ ReviewedServices(ret[1])
          = <<[service |-> Services[1].service, cost |-> 150000],
              [service |-> Services[2].service, cost |-> 150000],
              [service |-> Services[3].service, cost |-> 150000]>>

---------------------------------------------------------------------------
(* Claims about the estimator's algebra and its fallbacks (SpecSavings) *)

\* the orders the items of a list can come in
PermsOf(items) ==
    {[i \in 1..Len(items) |-> items[p[i]]] : p \in Permutations(1..Len(items))}

\* the inventories that hold the same items, category by category
Reorderings(idle) ==
    {q \in [DOMAIN idle -> UNION {PermsOf(idle[c]) : c \in DOMAIN idle}] :
        \A c \in DOMAIN idle : q[c] \in PermsOf(idle[c])}

\* C16: permuting the items within a category does not change the estimate:
\* whatever order the items come in, the estimator can only return the value
\* it returned for this order.  (With fewer than three items the float
\* additions are the same in every order; three make the running total
\* depend on the order, and a total on a rounding tie then rounds either
\* way.)
C16_OrderIndependent ==
    (ret # <<>> /\ idle_resources_count(idle_resources) >= 3) =>
        \A q \in Reorderings(idle_resources) :
            q # idle_resources => calculate_potential_savings(q) = {ret[1]}

\* the inventory on which the Python code returns 42.42 in this order and
\* 42.41 with the two databases swapped
TieInventory ==
    [EmptyInventory EXCEPT
        !["ec2_stopped"] = <<[type |-> "t3.micro"]>>,
        !["rds_stopped"] = <<[instance_class |-> "db.t3.micro", storage |-> 1],
                             [instance_class |-> "db.t3.micro", storage |-> 20]>>]

\* C16, the tie reached: 10 + 15.115 + 17.3 = 42.415 has been priced
C16_TieReached ==
    /\ idle_resources = TieInventory
    /\ ret = <<42420>>
    /\ 42410 \in calculate_potential_savings(
                    [TieInventory EXCEPT !["rds_stopped"] = <<@[2], @[1]>>])

\* the inventory with its missing categories put back, empty
Completed(idle) == [c \in Categories |-> Get(idle, c, <<>>)]

\* an item of the inventory has a type or class that the price table lacks
HasUnknownType(idle) ==
    \/ \E i \in 1..Len(idle["ec2_stopped"]) :
          idle["ec2_stopped"][i].type \notin DOMAIN ec2_pricing
    \/ \E i \in 1..Len(idle["ebs_unattached"]) :
          idle["ebs_unattached"][i].type \notin DOMAIN ebs_pricing
    \/ \E i \in 1..Len(idle["rds_stopped"]) :
          idle["rds_stopped"][i].instance_class \notin DOMAIN rds_instance_pricing

OnlyItem(cat, item) == [EmptyInventory EXCEPT ![cat] = <<item>>]

\* C17: the estimator returns a value for every inventory; an item whose
\* type or class is not in the price table is priced at the fallback (EC2
\* 30.0, EBS 0.08 per GB, RDS 60.0 plus storage), and an inventory with a
\* missing category is priced as if the category were there and empty.
C17_FallbacksAndMissingCategories ==
    ret # <<>> =>
        LET full == Completed(idle_resources)
        IN  /\ ret[1] \in Nat
            /\ ret[1] \in calculate_potential_savings(full)
            /\ Attributed(full) => IsRoundedTo2(ret[1], TableSum(full))
            /\ full = OnlyItem("ec2_stopped", [type |-> "m5.large"]) => ret[1] = 30000
            /\ full = OnlyItem("ebs_unattached", [size |-> 100, type |-> "sc1"])
                  => ret[1] = 8000
            /\ full = OnlyItem("rds_stopped", [instance_class |-> "db.m5.large", storage |-> 20])
                  => ret[1] = 62300

\* C17 witness: an inventory without its storage category, holding an
\* instance of a type the table lacks, has been priced at the fallback
C17_Witness ==
    /\ ret = <<30000>>
    /\ "ebs_unattached" \notin DOMAIN idle_resources
    /\ "ec2_stopped" \in DOMAIN idle_resources
    /\ idle_resources["ec2_stopped"] = <<[type |-> "m5.large"]>>
    /\ HasUnknownType(Completed(idle_resources))

---------------------------------------------------------------------------
(* Claims about the previous-period window (SpecTrends) *)

\* the dates the windows of the model can fall on
WindowDates ==
    {[year |-> y, month |-> m, day |-> d] :
        y \in {2024, 2025}, m \in {1, 2, 3, 11, 12}, d \in 1..31}

\* the date a TimePeriod bound of the query names
QueriedDate(text) == CHOOSE date \in WindowDates : datetime_isoformat(date) = text

\* the day after a date
NextDay(date) ==
    IF date.day < days_in_month(date.year, date.month)
    THEN [date EXCEPT !.day = @ + 1]
    ELSE IF date.month < 12
         THEN [date EXCEPT !.month = @ + 1, !.day = 1]
         ELSE [year |-> date.year + 1, month |-> 1, day |-> 1]

\* C18: the window of the previous-period query spans as many days as the
\* current window [start_date, end_date] (its End is as many days after its
\* Start), ends the day before start_date, and therefore neither overlaps
\* the current window nor leaves a day between the two.
C18_PreviousWindowAdjacentSameLength ==
    call.name = "get_cost_trends" =>
        LET prev_start == QueriedDate(prev_request.Start)
            prev_end   == QueriedDate(prev_request.End)
        IN  /\ datetime_isoformat(prev_start) = prev_request.Start
            /\ datetime_isoformat(prev_end) = prev_request.End
            /\ toordinal(prev_end) - toordinal(prev_start)
                  = toordinal(call.end_date) - toordinal(call.start_date)
            /\ toordinal(prev_start) <= toordinal(prev_end)
            /\ toordinal(prev_end) < toordinal(call.start_date)
            /\ NextDay(prev_end) = call.start_date

\* C18 witness: for the 30 days from 2025-01-05 to 2025-02-04 the query asks
\* for 2024-12-05 to 2025-01-04
C18_Witness ==
    /\ call.name = "get_cost_trends"
    /\ call.start_date = [year |-> 2025, month |-> 1, day |-> 5]
    /\ call.end_date = [year |-> 2025, month |-> 2, day |-> 4]
    /\ prev_request = [Start |-> "2024-12-05T00:00:00", End |-> "2025-01-04T00:00:00"]

---------------------------------------------------------------------------
(* Claims about the order of lambda_handler's steps (Spec) *)

\* C19 as stated: the savings are estimated first, then the recommendations
\* are generated, then the trends are calculated, then the report is
\* assembled, and only an assembled report reaches the report sink.
C19_EstimatorGeneratorTrendAssembler ==
    /\ recommendations # Unset => potential_savings # Unset
    /\ cost_trends # Unset => recommendations # Unset
    /\ report # Unset => cost_trends # Unset
    /\ DOMAIN s3 # {} => report # Unset

\* C19: the trends are calculated first, then the savings are estimated,
\* then the recommendations are generated, then the report is assembled from
\* the three results, and only the assembled report reaches the report sink.
C19_TrendEstimatorGeneratorAssembler ==
    /\ potential_savings # Unset => cost_trends # Unset
    /\ recommendations # Unset => potential_savings # Unset
    /\ report # Unset =>
          /\ recommendations # Unset
          /\ report.trends = cost_trends
          /\ report.summary.potential_savings = potential_savings.value
          /\ report.recommendations = recommendations.value
    /\ \A k \in DOMAIN s3 : report # Unset /\ s3[k] = json_dumps(report)
    /\ pc = "calculate_potential_savings" => cost_trends # Unset /\ potential_savings = Unset
    /\ pc = "generate_recommendations" => potential_savings # Unset /\ recommendations = Unset
    /\ pc = "build_report" => recommendations # Unset /\ report = Unset
    /\ pc = "write_daily_report" => report # Unset /\ DOMAIN s3 = {}

\* C19 witness: the report went to the sink after all four steps, with idle
\* resources estimated and services flagged
C19_Witness ==
    /\ pc = "send_cloudwatch_metrics"
    /\ ReportStored
    /\ DOMAIN cost_trends = {"current_period", "previous_period", "delta_absolute",
                             "delta_percent", "trend"}
    /\ potential_savings.value > 0
    /\ recommendations.value # <<>>

\* C19, between the steps: the trends are there and the savings are not yet
C19_TrendsBeforeSavingsReached ==
    /\ pc = "calculate_potential_savings"
    /\ cost_trends # Unset
    /\ potential_savings = Unset

---------------------------------------------------------------------------
(* Specification SpecWriter: write_daily_report called up to MaxWrites     *)
(* times on the same bucket, with every report date of WriterDates.        *)

\* most calls of write_daily_report in a behaviour
MaxWrites == 2

\* report dates with one-digit and two-digit months and days
WriterDates ==
    {[year |-> 2024, month |-> 1, day |-> 9], [year |-> 2024, month |-> 1, day |-> 10],
     [year |-> 2024, month |-> 11, day |-> 1], [year |-> 2025, month |-> 1, day |-> 11],
     [year |-> 2025, month |-> 11, day |-> 1], [year |-> 2025, month |-> 2, day |-> 4],
     [year |-> 2025, month |-> 11, day |-> 23], [year |-> 2025, month |-> 12, day |-> 31]}

\* reports to store
WriterReports ==
    {[environment |-> ENVIRONMENT, summary |-> [total_cost |-> t]] : t \in {0, 245320}}

CallWriteDailyReport ==
    /\ Get(call, "n", 0) < MaxWrites
    /\ \E date \in WriterDates, document \in WriterReports, puts \in PutOutcomes :
         LET w == write_daily_report(s3, document, date, puts)
         IN  /\ s3' = w.bucket
             /\ ret' = <<w.outcome>>
             /\ call' = [name |-> "write_daily_report", report |-> document, date |-> date,
                         bucket |-> s3, n |-> Get(call, "n", 0) + 1]
    /\ UNCHANGED <<pc, today, cost_data, service_costs, idle_resources, cost_trends,
                   potential_savings, recommendations, report, response, cloudwatch,
                   cost_response, service_response, scan_outcomes, prev_request,
                   prev_response, current_cost>>

NextWriter == CallWriteDailyReport

SpecWriter == InitPure /\ [][NextWriter]_vars

---------------------------------------------------------------------------
(* Claims about the report sink (SpecWriter) *)

\* 1..31 written with two digits
TwoDigits ==
    <<"01", "02", "03", "04", "05", "06", "07", "08", "09", "10", "11", "12", "13", "14",
      "15", "16", "17", "18", "19", "20", "21", "22", "23", "24", "25", "26", "27", "28",
      "29", "30", "31">>

\* reports/year=YYYY/month=MM/day=DD/cost-report-YYYY-MM-DD.json
DatedKey(date) ==
    LET yyyy == ToString(date.year)
        mm   == TwoDigits[date.month]
        dd   == TwoDigits[date.day]
    IN  "reports/year=" \o yyyy \o "/month=" \o mm \o "/day=" \o dd
        \o "/cost-report-" \o yyyy \o "-" \o mm \o "-" \o dd \o ".json"

WriteReturned == call.name = "write_daily_report" /\ ~ret[1].raised

---------------------------------------------------------------------------
(* Claims about what an invocation pushes to the metrics sink (Spec) *)

\* the names of the three observations and the summary fields they carry,
\* in the order of the claim
MetricNames == <<"TotalDailyCost", "IdleResourcesCount", "PotentialSavings">>

SummaryFields == <<"total_cost", "idle_resources_count", "potential_savings">>

\* every observation in the sink is the one of its position, with the value
\* of the summary field of this run's report, and the report was stored first
PushedFromStoredReport ==
    cloudwatch # <<>> =>
        /\ ReportStored
        /\ \A i \in 1..Len(cloudwatch) :
              /\ i <= 3
              /\ cloudwatch[i].MetricName = MetricNames[i]
              /\ cloudwatch[i].Value = report.summary[SummaryFields[i]]

\* C21 as stated: each invocation pushes exactly three scalar observations
\* to the metrics sink (total cost, idle resource count, potential savings),
\* whose values are the three summary fields of the report assembled in that
\* invocation, and it pushes them only after the report has been stored.
C21_ExactlyThreeAfterStored ==
    /\ pc = "done" => Len(cloudwatch) = 3
    /\ PushedFromStoredReport

\* C21: each invocation pushes at most three scalar observations to the
\* metrics sink: total cost, idle resource count and potential savings in
\* that order, stopping at the first push the sink refuses.  Their values
\* are the summary fields of the report assembled in that invocation, they
\* are pushed only in the last step, after the report has been stored under
\* both keys, and an invocation that ends before that step pushes none.
C21_AtMostThreeAfterStored ==
    /\ Len(cloudwatch) <= 3
    /\ PushedFromStoredReport
    /\ pc # "done" => cloudwatch = <<>>
    /\ ReturnedStatus(500) => cloudwatch = <<>>

\* C21 witness: a finished invocation whose three observations are in the
\* sink, with a cost and savings to report
C21_Witness ==
    /\ pc = "done"
    /\ Len(cloudwatch) = 3
    /\ ReportStored
    /\ cloudwatch[1].Value > 0
    /\ cloudwatch[2].Value = 2
    /\ cloudwatch[3].Value > 0
    /\ cloudwatch[3].Value # cloudwatch[1].Value

\* an invocation that stored its report and pushed only two observations
C21_PartialPushReached ==
    /\ pc = "done"
    /\ ReportStored
    /\ Len(cloudwatch) = 2

---------------------------------------------------------------------------
(* Claims about get_cost_and_usage (SpecServices) *)

\* get_cost_and_usage was called and the call is over
CostCalled == call.name = "get_cost_and_usage" /\ ret # <<>>

\* the sum of the per-service amounts of one returned period (mills)
PeriodSum(result) == SumSeq([i \in 1..Len(result.groups) |-> result.groups[i].amount])

\* the sum of the per-service amounts of all returned periods
AllPeriodsSum(results) == SumSeq([i \in 1..Len(results) |-> PeriodSum(results[i])])

\* a billing API error leaves the call as it came; otherwise the total is
\* the rounded sum of all amounts and there is one entry per period, in the
\* order returned, under the period's start date
ReraisedOrTotalled ==
    IF Failed(cost_response)
    THEN ret[1].raised /\ ret[1].error = cost_response.outcome
    ELSE /\ ~ret[1].raised
         /\ IsRoundedTo2(ret[1].value.total_cost, AllPeriodsSum(cost_response.results))
         /\ Len(ret[1].value.daily_costs) = Len(cost_response.results)
         /\ \A i \in 1..Len(cost_response.results) :
               ret[1].value.daily_costs[i].date = cost_response.results[i].start

\* C22 as stated: get_cost_and_usage returns one daily_costs entry per
\* returned time period, in the order returned, each holding the sum of that
\* period's per-service amounts, and total_cost equal to the (2-decimal
\* rounded) sum of all per-service amounts over all periods; a billing API
\* error is re-raised, never turned into a zero total.
C22_DailyCostIsPeriodSum ==
    CostCalled =>
        /\ ReraisedOrTotalled
        /\ ~Failed(cost_response) =>
              \A i \in 1..Len(cost_response.results) :
                 ret[1].value.daily_costs[i].cost = PeriodSum(cost_response.results[i])

\* C22: get_cost_and_usage returns one daily_costs entry per returned time
\* period, in the order returned, each holding the sum of that period's
\* per-service amounts rounded to 2 decimals, and total_cost equal to the
\* 2-decimal rounded sum of all per-service amounts over all periods (not
\* the sum of the rounded daily costs); a billing API error is re-raised,
\* never turned into a zero total.
C22_DailyCostIsRoundedPeriodSum ==
    CostCalled =>
        /\ ReraisedOrTotalled
        /\ ~Failed(cost_response) =>
              \A i \in 1..Len(cost_response.results) :
                 IsRoundedTo2(ret[1].value.daily_costs[i].cost,
                              PeriodSum(cost_response.results[i]))

\* C22 witness: two periods of 0.004 and 0.006 are returned as daily costs
\* of 0.00 and 0.01 and a total of 0.01
C22_Witness ==
    /\ CostCalled
    /\ ~ret[1].raised
    /\ Len(cost_response.results) = 2
    /\ PeriodSum(cost_response.results[1]) = 4
    /\ PeriodSum(cost_response.results[2]) = 6
    /\ ret[1].value.daily_costs[1].cost = 0
    /\ ret[1].value.daily_costs[2].cost = 10
    /\ ret[1].value.total_cost = 10

\* a ClientError of the billing API left the call
C22_ReraisedReached ==
    /\ CostCalled
    /\ ret[1].raised
    /\ ret[1].error = "ClientError"

---------------------------------------------------------------------------
(* Claims about the response of lambda_handler (Spec) *)

\* The handler can take its next step: the call it is at has an outcome,
\* returned or raised (for the trend step, whose only effect besides its
\* result is the query it sends: get_cost_trends has a result for an answer).
StepPossible ==
    \/ ENABLED GetCostAndUsage
    \/ ENABLED GetCostByService
    \/ ENABLED ScanAllResources
    \/ /\ pc = "get_cost_trends"
       /\ \E resp \in PrevResponses :
             get_cost_trends(Get(cost_data, "total_cost", 0), resp) # {}
    \/ ENABLED CalculatePotentialSavings
    \/ ENABLED GenerateRecommendations
    \/ ENABLED BuildReport
    \/ ENABLED WriteDailyReport
    \/ ENABLED SendMetricsAndReturn

\* C23: lambda_handler never raises and always returns a response with
\* status 200 or 500: until it returns, a next step is always possible, and
\* it ends only by returning one of the two.  It returns 200 only if the
\* report assembled in that run was written to both the dated key and the
\* latest-pointer key, and whenever it returns 500 no metric was pushed in
\* that run.
C23_Returns200Or500 ==
    /\ pc # "done" => response = Unset /\ StepPossible
    /\ pc = "done" => response # Unset /\ response.statusCode \in {200, 500}
    /\ ReturnedStatus(200) =>
          /\ report # Unset
          /\ s3_key(today) \in DOMAIN s3
          /\ latest_key \in DOMAIN s3
          /\ s3[s3_key(today)] = json_dumps(report)
          /\ s3[latest_key] = json_dumps(report)
    /\ ReturnedStatus(500) => cloudwatch = <<>>

\* C23 witness: the upload of the latest pointer failed after the dated
\* upload; the handler returned 500 with that error and pushed no metric
C23_Witness ==
    /\ ReturnedStatus(500)
    /\ response.body.json.error = "ClientError"
    /\ report # Unset
    /\ DOMAIN s3 = {s3_key(today)}
    /\ cloudwatch = <<>>

\* a run that returned 200 with its report under both keys and all metrics
C23_SuccessReached ==
    /\ ReturnedStatus(200)
    /\ DOMAIN s3 = {s3_key(today), latest_key}
    /\ Len(cloudwatch) = 3
    /\ response.body.json.summary.total_cost = 245320

---------------------------------------------------------------------------
(* Specification SpecLatest: up to MaxLatestWrites calls of                *)
(* write_daily_report on the same bucket, for equal or different dates,    *)
(* each succeeding or failing at either upload, with read_latest_report    *)
(* called in between.  `call` keeps the calls made so far: each call's     *)
(* record holds the write before it under `previous`.                      *)

\* most calls of write_daily_report in a behaviour
MaxLatestWrites == 3

LatestDates == {[year |-> 2025, month |-> 2, day |-> 4], [year |-> 2025, month |-> 11, day |-> 1]}

\* reports to store: one of JSON's own values only, one holding a date
LatestReports ==
    {[environment |-> ENVIRONMENT, summary |-> [total_cost |-> 0]],
     [environment |-> ENVIRONMENT, summary |-> [total_cost |-> 245320],
      generated_on |-> [year |-> 2025, month |-> 2, day |-> 4]]}

\* how get_object ends when the object is there
GetOutcomes == {"ok", "ClientError", "EndpointConnectionError"}

\* the last write_daily_report call made (NoCall before the first)
last_write == IF call.name = "read_latest_report" THEN call.previous ELSE call

WriteAgain ==
    /\ Get(call, "n", 0) < MaxLatestWrites
    /\ \E date \in LatestDates, document \in LatestReports, puts \in PutOutcomes :
         LET w == write_daily_report(s3, document, date, puts)
         IN  /\ s3' = w.bucket
             /\ ret' = <<w.outcome>>
             /\ call' = [name |-> "write_daily_report", report |-> document, date |-> date,
                         bucket |-> s3, n |-> Get(call, "n", 0) + 1, puts |-> puts,
                         previous |-> last_write]
    /\ UNCHANGED <<pc, today, cost_data, service_costs, idle_resources, cost_trends,
                   potential_savings, recommendations, report, response, cloudwatch,
                   cost_response, service_response, scan_outcomes, prev_request,
                   prev_response, current_cost>>

\* read_latest_report on the bucket as the calls so far left it
CallReadLatestReport ==
    /\ call.name # "read_latest_report"
    /\ \E get \in GetOutcomes :
         /\ ret' = <<read_latest_report(s3, get)>>
         /\ call' = [name |-> "read_latest_report", get |-> get, n |-> Get(call, "n", 0),
                     previous |-> call]
    /\ UNCHANGED <<pc, today, cost_data, service_costs, idle_resources, cost_trends,
                   potential_savings, recommendations, report, response, s3, cloudwatch,
                   cost_response, service_response, scan_outcomes, prev_request,
                   prev_response, current_cost>>

NextLatest == WriteAgain \/ CallReadLatestReport

SpecLatest == InitPure /\ [][NextLatest]_vars

---------------------------------------------------------------------------
(* Claims about the latest pointer (SpecLatest) *)

\* both uploads of the call succeeded: the dated one, then the latest one
BothUploaded(c) == c.puts[1] = "ok" /\ c.puts[2] = "ok"

\* the most recent write_daily_report call, from c back, whose latest upload
\* succeeded (NoCall when there is none)
RECURSIVE LastUploaded(_)
LastUploaded(c) ==
    IF c.name = "none" THEN c
    ELSE IF BothUploaded(c) THEN c
    ELSE LastUploaded(c.previous)

\* YYYY-MM-DD
IsoText(date) ==
    ToString(date.year) \o "-" \o TwoDigits[date.month] \o "-" \o TwoDigits[date.day]

\* The latest pointer is there exactly when a call's latest upload succeeded,
\* it is the body of the most recent such call, whose dated upload had
\* succeeded, and a call whose dated upload failed leaves the bucket as it was.
LatestIsLastUploaded ==
    LET c == LastUploaded(last_write)
    IN  /\ latest_key \in DOMAIN s3 <=> c.name = "write_daily_report"
        /\ c.name = "write_daily_report" =>
              /\ s3[latest_key] = json_dumps(c.report)
              /\ c.puts[1] = "ok"
              /\ DatedKey(c.date) \in DOMAIN s3
        /\ (last_write.name = "write_daily_report" /\ last_write.puts[1] # "ok") =>
              s3 = last_write.bucket

\* read_latest_report was called right after a fully successful write
ReadAfterWrite ==
    /\ call.name = "read_latest_report"
    /\ call.previous.name = "write_daily_report"
    /\ BothUploaded(call.previous)

\* value is the dict written: the same keys with equal values (the str that
\* JSON gives back for a date is not that date)
IsReportWritten(value, written) ==
    /\ DOMAIN value = DOMAIN written
    /\ \A k \in DOMAIN written : k # "generated_on" /\ value[k] = written[k]

\* value is the dict written as JSON has it: the same keys, a date as its
\* ISO text, every other value equal
IsJsonOfReportWritten(value, written) ==
    /\ DOMAIN value = DOMAIN written
    /\ \A k \in DOMAIN written :
          IF k = "generated_on" THEN value[k] = IsoText(written[k])
          ELSE value[k] = written[k]

\* C24 as stated: after any sequence of write_daily_report calls (succeeding
\* or failing at either upload, for equal or different dates), the
\* latest-pointer object, when present, is the body passed to the most
\* recent call whose latest upload succeeded, and that call's dated upload
\* had succeeded before it; hence read_latest_report after a fully
\* successful write returns the report just written, and the latest pointer
\* is never updated by a call whose dated write failed.
C24_ReadReturnsReportWritten ==
    /\ LatestIsLastUploaded
    /\ ReadAfterWrite =>
          /\ ~ret[1].raised
          /\ IsReportWritten(ret[1].value, call.previous.report)

\* C24: after any sequence of write_daily_report calls (succeeding or failing
\* at either upload, for equal or different dates), the latest-pointer
\* object, when present, is the body passed to the most recent call whose
\* latest upload succeeded, and that call's dated upload had succeeded
\* before it; the latest pointer is never updated by a call whose dated
\* write failed.  read_latest_report after a fully successful write returns,
\* when its get_object succeeds, the report just written as JSON has it:
\* the report itself when all its values are JSON's own, with a date as its
\* ISO text otherwise; it returns {} when get_object fails with a
\* ClientError and raises on any other failure.
C24_ReadReturnsJsonOfReportWritten ==
    /\ LatestIsLastUploaded
    /\ ReadAfterWrite =>
          CASE call.get = "ok" ->
                 /\ ~ret[1].raised
                 /\ IsJsonOfReportWritten(ret[1].value, call.previous.report)
                 /\ "generated_on" \notin DOMAIN call.previous.report =>
                       IsReportWritten(ret[1].value, call.previous.report)
            [] call.get = "ClientError" ->
                 ~ret[1].raised /\ ret[1].value = EmptyDict
            [] OTHER -> ret[1].raised /\ ret[1].error = call.get

\* C24 witness: the third call's latest upload failed after its dated
\* upload, the second call's dated upload failed, and the latest pointer is
\* still the body of the first call, which holds another report
C24_Witness ==
    /\ call.name = "write_daily_report"
    /\ call.n = 3
    /\ call.puts = <<"ok", "ClientError">>
    /\ DatedKey(call.date) \in DOMAIN s3
    /\ call.previous.puts[1] = "ClientError"
    /\ BothUploaded(call.previous.previous)
    /\ call.previous.previous.report # call.report
    /\ call.previous.report = call.report
    /\ s3[latest_key] = json_dumps(call.previous.previous.report)

\* a report holding a date was read back with the date's ISO text
C24_DateReadAsTextReached ==
    /\ ReadAfterWrite
    /\ call.get = "ok"
    /\ "generated_on" \in DOMAIN call.previous.report
    /\ ret[1].value.generated_on = "2025-02-04"

\* a report of JSON's own values was read back as it was written
C24_ReportReadBackReached ==
    /\ ReadAfterWrite
    /\ call.get = "ok"
    /\ call.n = 2
    /\ ret[1].value = [environment |-> "dev", summary |-> [total_cost |-> 0]]

\* the read failed with a ClientError right after a fully successful write
C24_ReadFailedReached ==
    /\ ReadAfterWrite
    /\ call.get = "ClientError"
    /\ ret[1].value = EmptyDict

=============================================================================
